---- MODULE Spec2Model ----
(***************************************************************************)
(* Verification model of the small_int variable-length integer codecs.     *)
(*                                                                         *)
(* Python integers are unbounded while TLC integers are 32 bit wide, so a  *)
(* Python int that may exceed 2^31 is modelled as a little-endian vector   *)
(* of NLimbs base-256 digits ("Big").  Byte buffers are sequences of       *)
(* 0..255; indexes into them keep the 0-based values of the source and     *)
(* are shifted by one where a sequence is accessed.                        *)
(***************************************************************************)
EXTENDS Integers, Sequences, FiniteSets, TLC

VARIABLES
    codec,   \* the module whose functions run in this behaviour
    pc,      \* position of the run: encoding, encoded, decoding, done, error
    a,       \* the argument of the encode call(s): a sequence of values
    enc,     \* the encoder's locals (out, bit_pos, ...) and loop position
    data,    \* the bytes handed to the decoder
    count,   \* the count handed to the decoder
    dec,     \* the decoder's locals (res, byte_index, bit_pos, ...)
    mode     \* how data was derived from the encoder's output

vars == <<codec, pc, a, enc, data, count, dec, mode>>

-----------------------------------------------------------------------------
(* Bounds of the model *)

NLimbs == 10     \* base-256 digits kept for one Python int (80 bits)
MaxLen == 2      \* longest sequence of values given to an encoder
MaxOver == 1     \* how far count may exceed the number of encoded values
MaxRaw == 9      \* longest byte string of arbitrary decoder input
MaxCount == 2    \* largest count asked of a decoder on arbitrary input
MaxSigned == 150 \* largest magnitude of the small signed values mapped by zigzag
MaxBytes8 == 10  \* longest small_int8 encoding whose first value is an input

-----------------------------------------------------------------------------
(* Python int arithmetic on small (TLC) integers *)

Min(x, y) == IF x < y THEN x ELSE y
Max(x, y) == IF x > y THEN x ELSE y

RECURSIVE BitOr(_, _)
BitOr(x, y) ==
    IF x = 0 THEN y
    ELSE IF y = 0 THEN x
    ELSE (IF x % 2 = 1 \/ y % 2 = 1 THEN 1 ELSE 0) + 2 * BitOr(x \div 2, y \div 2)

RECURSIVE BitAnd(_, _)
BitAnd(x, y) ==
    IF x = 0 \/ y = 0 THEN 0
    ELSE (IF x % 2 = 1 /\ y % 2 = 1 THEN 1 ELSE 0) + 2 * BitAnd(x \div 2, y \div 2)

Shr(x, k) == x \div (2 ^ k)
Shl(x, k) == x * (2 ^ k)

RECURSIVE IntBitLength(_)
IntBitLength(x) == IF x = 0 THEN 0 ELSE 1 + IntBitLength(x \div 2)

-----------------------------------------------------------------------------
(* Python int arithmetic on Big values *)

Limbs == 1..NLimbs

\* the digits as a tuple of NLimbs elements
Digits(f) == SubSeq(f, 1, NLimbs)

BigZero == Digits([i \in Limbs |-> 0])

\* a small non-negative integer (< 2^31) as a Big
BigFromInt(n) == Digits([i \in Limbs |-> IF i <= 4 THEN (n \div (256 ^ (i - 1))) % 256 ELSE 0])

\* TRUE when the Big is below 2^31 and so has a TLC integer value
BigFits(b) == b[4] < 128 /\ \A i \in Limbs : i > 4 => b[i] = 0
BigToInt(b) == b[1] + 256 * b[2] + 65536 * b[3] + 16777216 * b[4]

BigPow2(k) == Digits([i \in Limbs |-> IF i = (k \div 8) + 1 THEN 2 ^ (k % 8) ELSE 0])

BigLT(x, y) == \E i \in Limbs : x[i] < y[i] /\ \A j \in Limbs : j > i => x[j] = y[j]
BigLE(x, y) == x = y \/ BigLT(x, y)

BigAdd(x, y) ==
    LET c[i \in 0..NLimbs] == IF i = 0 THEN 0 ELSE (x[i] + y[i] + c[i - 1]) \div 256
    IN  Digits([i \in Limbs |-> (x[i] + y[i] + c[i - 1]) % 256])

\* x - y for x >= y
BigSub(x, y) ==
    LET b[i \in 0..NLimbs] == IF i = 0 THEN 0 ELSE IF x[i] - y[i] - b[i - 1] < 0 THEN 1 ELSE 0
    IN  Digits([i \in Limbs |-> (x[i] - y[i] - b[i - 1] + 256) % 256])

BigBitLength(x) ==
    IF x = BigZero THEN 0
    ELSE LET top == CHOOSE i \in Limbs : x[i] # 0 /\ \A j \in Limbs : j > i => x[j] = 0
         IN  8 * (top - 1) + IntBitLength(x[top])

\* x >> s
BigShr(x, s) ==
    LET q == s \div 8
        r == s % 8
        limb(j) == IF j <= NLimbs THEN x[j] ELSE 0
    IN  Digits([i \in Limbs |-> (limb(i + q) \div (2 ^ r)) + (limb(i + q + 1) % (2 ^ r)) * (2 ^ (8 - r))])

\* x << s, for results below 2^(8*NLimbs)
BigShl(x, s) ==
    LET q == s \div 8
        r == s % 8
        limb(j) == IF j >= 1 THEN x[j] ELSE 0
    IN  Digits([i \in Limbs |-> ((limb(i - q) * (2 ^ r)) % 256) + (limb(i - q - 1) \div (2 ^ (8 - r)))])

\* x & ((1 << n) - 1)
BigMask(x, n) ==
    Digits([i \in Limbs |-> IF 8 * i <= n THEN x[i]
                            ELSE IF 8 * (i - 1) >= n THEN 0
                            ELSE x[i] % (2 ^ (n - 8 * (i - 1)))])

BigOr(x, y) == Digits([i \in Limbs |-> BitOr(x[i], y[i])])

\* int.from_bytes(bs, 'little') and the low n bytes of x, little-endian
BigFromBytesLE(bs) == Digits([i \in Limbs |-> IF i <= Len(bs) THEN bs[i] ELSE 0])
BigToBytesLE(x, n) == SubSeq(x, 1, n)

-----------------------------------------------------------------------------
(* Values: a Python int as sign and magnitude (zero is never negative) *)

Val(m) == [neg |-> FALSE, mag |-> m]
NegVal(m) == [neg |-> m # BigZero, mag |-> m]
IntVal(n) == Val(BigFromInt(n))

\* x < y on Python ints
ValLT(x, y) ==
    IF x.neg /\ ~y.neg THEN TRUE
    ELSE IF ~x.neg /\ y.neg THEN FALSE
    ELSE IF x.neg THEN BigLT(y.mag, x.mag)
    ELSE BigLT(x.mag, y.mag)

U64_MAX == BigSub(BigPow2(64), BigFromInt(1))      \* 0xFFFFFFFFFFFFFFFF

\* sequences over S of length at most n
SeqsUpTo(S, n) == UNION {[1..k -> S] : k \in 0..n}

Last(s) == s[Len(s)]
Front(s) == SubSeq(s, 1, Len(s) - 1)
\* out[-1] |= x
OrLast(out, x) == [out EXCEPT ![Len(out)] = BitOr(out[Len(out)], x)]

-----------------------------------------------------------------------------
(* small_int1.py: the form table *)

_CAP_BITS == <<1, 2, 5, 8, 12, 16, 19>>
_CAPACITY == SubSeq([i \in 1..Len(_CAP_BITS) |-> 2 ^ _CAP_BITS[i]], 1, Len(_CAP_BITS))

RECURSIVE SumTo(_, _)
SumTo(s, k) == IF k = 0 THEN 0 ELSE s[k] + SumTo(s, k - 1)

\* _SHIFT[i] and _TOP[i] of the source are _SHIFT[i + 1] and _TOP[i + 1] here
_SHIFT == SubSeq([i \in 1..Len(_CAPACITY) |-> SumTo(_CAPACITY, i - 1)], 1, Len(_CAPACITY))
_TOP == SubSeq([i \in 1..Len(_CAPACITY) |-> _SHIFT[i] + _CAPACITY[i] - 1], 1, Len(_CAPACITY))
_MAX_SMALL == _TOP[Len(_TOP)]
_BIT_MASK == [i \in 0..8 |-> (2 ^ i) - 1]

-----------------------------------------------------------------------------
(* small_int1.py: bit_encode_small_unsigned *)

\* EmitAligned that appends the remainder without masking it to n_bits
RECURSIVE EmitAligned_NoMask(_, _, _)
EmitAligned_NoMask(out, value, n_bits) ==
    IF n_bits >= 8
    THEN EmitAligned_NoMask(Append(out, BigToInt(BigMask(value, 8))), BigShr(value, 8), n_bits - 8)
    ELSE IF n_bits > 0
         THEN [out |-> Append(out, BigToInt(BigMask(value, 8))), bit_pos |-> n_bits]
         ELSE [out |-> out, bit_pos |-> 8]

\* "while n_bits >= 8" and "if n_bits > 0" of _emit_bits; bit_pos is 8 on entry
RECURSIVE EmitAligned(_, _, _)
EmitAligned(out, value, n_bits) ==
    IF n_bits >= 8
    THEN EmitAligned(Append(out, BigToInt(BigMask(value, 8))), BigShr(value, 8), n_bits - 8)
    ELSE IF n_bits > 0
         THEN [out |-> Append(out, BigToInt(BigMask(value, n_bits))), bit_pos |-> n_bits]
         ELSE [out |-> out, bit_pos |-> 8]

\* _emit_bits that assigns the last byte where the code ORs into it
_emit_bits_Assigns(w, value, n_bits) ==
    IF w.bit_pos # 8
    THEN LET avail == 8 - w.bit_pos
         IN  IF n_bits < avail
             THEN [out |-> [w.out EXCEPT ![Len(w.out)] = Shl(BigToInt(BigMask(value, n_bits)), w.bit_pos)],
                   bit_pos |-> w.bit_pos + n_bits]
             ELSE EmitAligned([w.out EXCEPT ![Len(w.out)] = Shl(BigToInt(BigMask(value, avail)), w.bit_pos)],
                              BigShr(value, avail), n_bits - avail)
    ELSE EmitAligned(w.out, value, n_bits)

\* w holds the closure's out and bit_pos; value is a Big
_emit_bits(w, value, n_bits) ==
    IF w.bit_pos # 8
    THEN LET avail == 8 - w.bit_pos
         IN  IF n_bits < avail
             THEN [out |-> OrLast(w.out, Shl(BigToInt(BigMask(value, n_bits)), w.bit_pos)),
                   bit_pos |-> w.bit_pos + n_bits]
             ELSE EmitAligned(OrLast(w.out, Shl(BigToInt(BigMask(value, avail)), w.bit_pos)),
                              BigShr(value, avail), n_bits - avail)
    ELSE EmitAligned(w.out, value, n_bits)

\* EncoderForm that tests the fourth form against the top of the fifth
EncoderForm_SkipsForm5(n) ==
    IF BigLE(n, BigFromInt(_TOP[1])) THEN 1
    ELSE IF BigLE(n, BigFromInt(_TOP[2])) THEN 2
    ELSE IF BigLE(n, BigFromInt(_TOP[3])) THEN 3
    ELSE IF BigLE(n, BigFromInt(_TOP[5])) THEN 4
    ELSE IF BigLE(n, BigFromInt(_TOP[6])) THEN 6
    ELSE IF BigLE(n, BigFromInt(_TOP[7])) THEN 7
    ELSE 8

\* the form (1..8) the chain of comparisons of the encoder selects for n >= 0
EncoderForm(n) ==
    IF BigLE(n, BigFromInt(_TOP[1])) THEN 1
    ELSE IF BigLE(n, BigFromInt(_TOP[2])) THEN 2
    ELSE IF BigLE(n, BigFromInt(_TOP[3])) THEN 3
    ELSE IF BigLE(n, BigFromInt(_TOP[4])) THEN 4
    ELSE IF BigLE(n, BigFromInt(_TOP[5])) THEN 5
    ELSE IF BigLE(n, BigFromInt(_TOP[6])) THEN 6
    ELSE IF BigLE(n, BigFromInt(_TOP[7])) THEN 7
    ELSE 8

\* RawNBytes without the floor of three payload bytes
RawNBytes_NoFloor(adj) ==
    LET q == (BigBitLength(adj) + 7) \div 8
    IN  IF q = 0 THEN 1 ELSE q

\* nbytes of the raw form: max(3, (adj.bit_length() + 7) // 8 or 1)
RawNBytes(adj) ==
    LET q == (BigBitLength(adj) + 7) \div 8
    IN  Max(3, IF q = 0 THEN 1 ELSE q)

\* EncodeValue that writes form 4 as a control byte and two payload bytes
EncodeValue_WideForm4(w, n) ==
    LET f == EncoderForm(n)
        s == BigToInt(n) - _SHIFT[f]
    IN  CASE f = 1 -> _emit_bits(w, BigFromInt(Shl(s, 1)), 2)
          [] f = 2 -> _emit_bits(w, BigFromInt(BitOr(Shl(s, 2), 1)), 4)
          [] f = 3 -> _emit_bits(w, BigFromInt(BitOr(Shl(s, 3), 3)), 8)
          [] f = 4 -> _emit_bits(w, BigFromInt(BitOr(31, Shl(s, 8))), 24)
          [] f = 5 -> _emit_bits(w, BigFromInt(BitOr(Shl(s, 4), 7)), 16)
          [] f = 6 -> _emit_bits(w, BigFromInt(BitOr(63, Shl(s, 8))), 24)
          [] f = 7 -> _emit_bits(w, BigFromInt(BitOr(Shl(s, 5), 15)), 24)
          [] OTHER ->
               LET adj == BigSub(n, BigFromInt(_MAX_SMALL + 1))
                   nbytes == RawNBytes(adj)
               IN  _emit_bits(_emit_bits(w, BigFromInt(BitOr(31, Shl(BitAnd(nbytes - 1, 7), 5))), 8),
                              adj, 8 * nbytes)

\* EncodeValue whose raw form stores n itself, not n - (_MAX_SMALL + 1)
EncodeValue_RawNoOffset(w, n) ==
    LET f == EncoderForm(n)
        s == BigToInt(n) - _SHIFT[f]
    IN  CASE f = 1 -> _emit_bits(w, BigFromInt(Shl(s, 1)), 2)
          [] f = 2 -> _emit_bits(w, BigFromInt(BitOr(Shl(s, 2), 1)), 4)
          [] f = 3 -> _emit_bits(w, BigFromInt(BitOr(Shl(s, 3), 3)), 8)
          [] f = 4 -> _emit_bits(w, BigFromInt(BitOr(31, Shl(s, 8))), 16)
          [] f = 5 -> _emit_bits(w, BigFromInt(BitOr(Shl(s, 4), 7)), 16)
          [] f = 6 -> _emit_bits(w, BigFromInt(BitOr(63, Shl(s, 8))), 24)
          [] f = 7 -> _emit_bits(w, BigFromInt(BitOr(Shl(s, 5), 15)), 24)
          [] OTHER ->
               LET nbytes == RawNBytes(n)
               IN  _emit_bits(_emit_bits(w, BigFromInt(BitOr(31, Shl(BitAnd(nbytes - 1, 7), 5))), 8),
                              n, 8 * nbytes)

\* the body of "for n in a" once the range check has passed
EncodeValue(w, n) ==
    LET f == EncoderForm(n)
        s == BigToInt(n) - _SHIFT[f]
    IN  CASE f = 1 -> _emit_bits(w, BigFromInt(Shl(s, 1)), 2)
          [] f = 2 -> _emit_bits(w, BigFromInt(BitOr(Shl(s, 2), 1)), 4)
          [] f = 3 -> _emit_bits(w, BigFromInt(BitOr(Shl(s, 3), 3)), 8)
          [] f = 4 -> _emit_bits(w, BigFromInt(BitOr(31, Shl(s, 8))), 16)
          [] f = 5 -> _emit_bits(w, BigFromInt(BitOr(Shl(s, 4), 7)), 16)
          [] f = 6 -> _emit_bits(w, BigFromInt(BitOr(63, Shl(s, 8))), 24)
          [] f = 7 -> _emit_bits(w, BigFromInt(BitOr(Shl(s, 5), 15)), 24)
          [] OTHER ->
               LET adj == BigSub(n, BigFromInt(_MAX_SMALL + 1))
                   nbytes == RawNBytes(adj)
               IN  _emit_bits(_emit_bits(w, BigFromInt(BitOr(31, Shl(BitAnd(nbytes - 1, 7), 5))), 8),
                              adj, 8 * nbytes)

\* n < 0 or n > 0xFFFFFFFFFFFFFFFF
OutOfRange(v) == v.neg \/ BigLT(U64_MAX, v.mag)

\* what an encode call hands back: the bytes, or ok = FALSE for ValueError
EncRaised == [ok |-> FALSE, out |-> <<>>]
EncBytes(bs) == [ok |-> TRUE, out |-> bs]

\* bit_encode_small_unsigned(s) as one call
RECURSIVE EncodeFrom(_, _, _)
EncodeFrom(w, s, k) ==
    IF k > Len(s) THEN EncBytes(w.out)
    ELSE IF OutOfRange(s[k]) THEN EncRaised
    ELSE EncodeFrom(EncodeValue(w, s[k].mag), s, k + 1)

bit_encode_small_unsigned(s) == EncodeFrom([out |-> <<0>>, bit_pos |-> 0], s, 1)

-----------------------------------------------------------------------------
(* small_int1.py: bit_decode_small_unsigned *)

EndOfData == "Unexpected end of data while reading bits"
NotEnough == "Not enough data to decode requested number of integers"
ReadFail == [ok |-> FALSE, val |-> BigZero, byte_index |-> 0, bit_pos |-> 0]

\* "while n_bits >= 8" and "if n_bits" of read_bits; the cursor is byte aligned
RECURSIVE ReadAligned(_, _, _, _, _)
ReadAligned(d, val, shift, byte_index, n_bits) ==
    IF n_bits >= 8
    THEN IF byte_index >= Len(d) THEN ReadFail
         ELSE ReadAligned(d, BigOr(val, BigShl(BigFromInt(d[byte_index + 1]), shift)),
                          shift + 8, byte_index + 1, n_bits - 8)
    ELSE IF n_bits # 0
         THEN IF byte_index >= Len(d) THEN ReadFail
              ELSE [ok |-> TRUE,
                    val |-> BigOr(val, BigShl(BigFromInt(BitAnd(d[byte_index + 1], _BIT_MASK[n_bits])), shift)),
                    byte_index |-> byte_index, bit_pos |-> n_bits]
         ELSE [ok |-> TRUE, val |-> val, byte_index |-> byte_index, bit_pos |-> 0]

\* read_bits whose unaligned start forgets to shift the byte down by bit_pos
read_bits_NoShift(d, r, n_bits) ==
    IF n_bits <= 0
    THEN [ok |-> TRUE, val |-> BigZero, byte_index |-> r.byte_index, bit_pos |-> r.bit_pos]
    ELSE IF r.bit_pos # 0
         THEN IF r.byte_index >= Len(d) THEN ReadFail
              ELSE LET avail == 8 - r.bit_pos
                   IN  IF n_bits < avail
                       THEN [ok |-> TRUE,
                             val |-> BigFromInt(BitAnd(d[r.byte_index + 1], _BIT_MASK[n_bits])),
                             byte_index |-> r.byte_index, bit_pos |-> r.bit_pos + n_bits]
                       ELSE ReadAligned(d, BigFromInt(BitAnd(d[r.byte_index + 1], _BIT_MASK[avail])),
                                        avail, r.byte_index + 1, n_bits - avail)
         ELSE ReadAligned(d, BigZero, 0, r.byte_index, n_bits)

\* read_bits whose unaligned short read keeps all the bits above the cursor
read_bits_NoMask(d, r, n_bits) ==
    IF n_bits <= 0
    THEN [ok |-> TRUE, val |-> BigZero, byte_index |-> r.byte_index, bit_pos |-> r.bit_pos]
    ELSE IF r.bit_pos # 0
         THEN IF r.byte_index >= Len(d) THEN ReadFail
              ELSE LET avail == 8 - r.bit_pos
                   IN  IF n_bits < avail
                       THEN [ok |-> TRUE,
                             val |-> BigFromInt(Shr(d[r.byte_index + 1], r.bit_pos)),
                             byte_index |-> r.byte_index, bit_pos |-> r.bit_pos + n_bits]
                       ELSE ReadAligned(d, BigFromInt(Shr(d[r.byte_index + 1], r.bit_pos)),
                                        avail, r.byte_index + 1, n_bits - avail)
         ELSE ReadAligned(d, BigZero, 0, r.byte_index, n_bits)

\* r holds the closure's byte_index and bit_pos; ok is FALSE where the source raises
read_bits(d, r, n_bits) ==
    IF n_bits <= 0
    THEN [ok |-> TRUE, val |-> BigZero, byte_index |-> r.byte_index, bit_pos |-> r.bit_pos]
    ELSE IF r.bit_pos # 0
         THEN IF r.byte_index >= Len(d) THEN ReadFail
              ELSE LET avail == 8 - r.bit_pos
                   IN  IF n_bits < avail
                       THEN [ok |-> TRUE,
                             val |-> BigFromInt(BitAnd(Shr(d[r.byte_index + 1], r.bit_pos), _BIT_MASK[n_bits])),
                             byte_index |-> r.byte_index, bit_pos |-> r.bit_pos + n_bits]
                       ELSE ReadAligned(d, BigFromInt(Shr(d[r.byte_index + 1], r.bit_pos)),
                                        avail, r.byte_index + 1, n_bits - avail)
         ELSE ReadAligned(d, BigZero, 0, r.byte_index, n_bits)

\* peek_upto8 that never looks into the following byte
peek_upto8_CurrentByteOnly(d, r) == Shr(d[r.byte_index + 1], r.bit_pos)

\* the value peek_upto8 returns; the caller has checked byte_index < byte_len
peek_upto8(d, r) ==
    LET val == Shr(d[r.byte_index + 1], r.bit_pos)
    IN  IF val # 0 /\ r.byte_index + 1 < Len(d)
        THEN BitOr(val, BitAnd(Shl(d[r.byte_index + 2], 8 - r.bit_pos), 255))
        ELSE val

\* DecoderForm whose test for form 7 masks four bits instead of five
DecoderForm_ShortMask(preview) ==
    IF BitAnd(preview, 1) = 0 THEN 1
    ELSE IF BitAnd(preview, 3) = 1 THEN 2
    ELSE IF BitAnd(preview, 7) = 3 THEN 3
    ELSE IF BitAnd(preview, 15) = 7 THEN 5
    ELSE IF BitAnd(preview, 15) = 15 THEN 7
    ELSE LET N == BitAnd(Shr(preview, 5), 7)
         IN  IF N = 0 THEN 4 ELSE IF N = 1 THEN 6 ELSE 8

\* the branch of the if/elif chain taken on a preview, named by its form;
\* 4, 6 and 8 are the three cases of N in the final else
DecoderForm(preview) ==
    IF BitAnd(preview, 1) = 0 THEN 1
    ELSE IF BitAnd(preview, 3) = 1 THEN 2
    ELSE IF BitAnd(preview, 7) = 3 THEN 3
    ELSE IF BitAnd(preview, 15) = 7 THEN 5
    ELSE IF BitAnd(preview, 31) = 15 THEN 7
    ELSE LET N == BitAnd(Shr(preview, 5), 7)
         IN  IF N = 0 THEN 4 ELSE IF N = 1 THEN 6 ELSE 8

\* DecodeValue that reads the payload from the control byte on
DecodeValue_KeepsControlByte(d, r) ==
    IF r.byte_index >= Len(d)
    THEN [ok |-> FALSE, err |-> NotEnough]
    ELSE LET preview == peek_upto8(d, r)
             f == DecoderForm(preview)
             N == BitAnd(Shr(preview, 5), 7)
             past == [byte_index |-> r.byte_index, bit_pos |-> r.bit_pos]
             rd == CASE f = 1 -> read_bits(d, r, 2)
                     [] f = 2 -> read_bits(d, r, 4)
                     [] f = 3 -> read_bits(d, r, 8)
                     [] f = 5 -> read_bits(d, r, 16)
                     [] f = 7 -> read_bits(d, r, 24)
                     [] f = 4 -> read_bits(d, past, 8)
                     [] f = 6 -> read_bits(d, past, 16)
                     [] OTHER -> read_bits(d, past, 8 * (N + 1))
             v == CASE f = 1 -> BigFromInt(_SHIFT[1] + Shr(BigToInt(rd.val), 1))
                    [] f = 2 -> BigFromInt(_SHIFT[2] + Shr(BigToInt(rd.val), 2))
                    [] f = 3 -> BigFromInt(_SHIFT[3] + Shr(BigToInt(rd.val), 3))
                    [] f = 5 -> BigFromInt(_SHIFT[5] + Shr(BigToInt(rd.val), 4))
                    [] f = 7 -> BigFromInt(_SHIFT[7] + Shr(BigToInt(rd.val), 5))
                    [] f = 4 -> BigFromInt(_SHIFT[4] + BigToInt(rd.val))
                    [] f = 6 -> BigFromInt(_SHIFT[6] + BigToInt(rd.val))
                    [] OTHER -> BigAdd(BigFromInt(_MAX_SMALL + 1), rd.val)
         IN  IF rd.ok
             THEN [ok |-> TRUE, form |-> f, value |-> Val(v),
                   byte_index |-> rd.byte_index, bit_pos |-> rd.bit_pos]
             ELSE [ok |-> FALSE, err |-> EndOfData]

\* one iteration of "while len(res) < count" from the cursor r:
\* the value appended and the new cursor, or the error raised
DecodeValue(d, r) ==
    IF r.byte_index >= Len(d)
    THEN [ok |-> FALSE, err |-> NotEnough]
    ELSE LET preview == peek_upto8(d, r)
             f == DecoderForm(preview)
             N == BitAnd(Shr(preview, 5), 7)
             past == [byte_index |-> r.byte_index + 1, bit_pos |-> r.bit_pos]
             rd == CASE f = 1 -> read_bits(d, r, 2)
                     [] f = 2 -> read_bits(d, r, 4)
                     [] f = 3 -> read_bits(d, r, 8)
                     [] f = 5 -> read_bits(d, r, 16)
                     [] f = 7 -> read_bits(d, r, 24)
                     [] f = 4 -> read_bits(d, past, 8)
                     [] f = 6 -> read_bits(d, past, 16)
                     [] OTHER -> read_bits(d, past, 8 * (N + 1))
             v == CASE f = 1 -> BigFromInt(_SHIFT[1] + Shr(BigToInt(rd.val), 1))
                    [] f = 2 -> BigFromInt(_SHIFT[2] + Shr(BigToInt(rd.val), 2))
                    [] f = 3 -> BigFromInt(_SHIFT[3] + Shr(BigToInt(rd.val), 3))
                    [] f = 5 -> BigFromInt(_SHIFT[5] + Shr(BigToInt(rd.val), 4))
                    [] f = 7 -> BigFromInt(_SHIFT[7] + Shr(BigToInt(rd.val), 5))
                    [] f = 4 -> BigFromInt(_SHIFT[4] + BigToInt(rd.val))
                    [] f = 6 -> BigFromInt(_SHIFT[6] + BigToInt(rd.val))
                    [] OTHER -> BigAdd(BigFromInt(_MAX_SMALL + 1), rd.val)
         IN  IF rd.ok
             THEN [ok |-> TRUE, form |-> f, value |-> Val(v),
                   byte_index |-> rd.byte_index, bit_pos |-> rd.bit_pos]
             ELSE [ok |-> FALSE, err |-> EndOfData]

\* what a decode call hands back: the list in res and err = "", or the
\* message of the ValueError in err
DecReturned(res) == [res |-> res, err |-> ""]
DecRaised(res, msg) == [res |-> res, err |-> msg]

\* bit_decode_small_unsigned(d, c) as one call
RECURSIVE DecodeFrom(_, _, _, _)
DecodeFrom(d, c, res, r) ==
    IF Len(res) >= c THEN DecReturned(res)
    ELSE LET s == DecodeValue(d, r)
         IN  IF s.ok
             THEN DecodeFrom(d, c, Append(res, s.value),
                             [byte_index |-> s.byte_index, bit_pos |-> s.bit_pos])
             ELSE DecRaised(res, s.err)

bit_decode_small_unsigned(d, c) ==
    IF c < 0 THEN DecRaised(<<>>, "count must be non-negative")
    ELSE DecodeFrom(d, c, <<>>, [byte_index |-> 0, bit_pos |-> 0])

-----------------------------------------------------------------------------
(* small_int8_wt.py: bit_encode_small and bit_decode_small *)

NEG_MULTI_MARKER == 16
NEG_2BYTE_MARKER == 32
NEG_1BYTE_MARKER == 64
POS_1BYTE_MARKER == 128
POS_2BYTE_MARKER == 192
POS_MULTI_MARKER == 224

\* the range limits; the two negative ones are kept as magnitudes
NEG_1BYTE_MIN_Mag == 2 ^ 6
NEG_2BYTE_MIN_Mag == (2 ^ 13) + NEG_1BYTE_MIN_Mag
\* POS_1BYTE_MAX for a payload of seven bits
POS_1BYTE_MAX_SevenBits == (2 ^ 7) - 1

POS_1BYTE_MAX == (2 ^ 6) - 1
POS_2BYTE_MAX == (2 ^ 13) + POS_1BYTE_MAX

\* to_bytes that puts the least significant byte first
BigToBytesBE_LittleEndian(x, n) == SubSeq(x, 1, n)

\* x.to_bytes(n, 'big')
BigToBytesBE(x, n) == SubSeq([i \in 1..n |-> x[n + 1 - i]], 1, n)

\* from_bytes that takes the first byte as the least significant
BigFromBytesBE_LeastFirst(bs) == Digits([i \in Limbs |-> IF i <= Len(bs) THEN bs[i] ELSE 0])

\* int.from_bytes(bs, 'big')
BigFromBytesBE(bs) == Digits([i \in Limbs |-> IF i <= Len(bs) THEN bs[Len(bs) + 1 - i] ELSE 0])

\* n < -(1 << 63) or n > (1 << 64) - 1
WtOutOfRange(v) ==
    IF v.neg THEN BigLT(BigPow2(63), v.mag) ELSE BigLT(U64_MAX, v.mag)

\* the bytes the loop body appends for one value n in range (none where it
\* raises "multi-byte positive length overflow")
WtEncodeValue(n) ==
    IF n.neg /\ BigLT(BigFromInt(NEG_2BYTE_MIN_Mag), n.mag)
    THEN LET mask64 == U64_MAX
             u == BigSub(BigPow2(64), n.mag)            \* n & mask64
             inv == BigSub(mask64, u)                   \* (~n) & mask64
             lead_zero_bits == IF inv # BigZero THEN 64 - BigBitLength(inv) ELSE 64
             lz == Min(7, lead_zero_bits \div 8)
             full == BigToBytesBE(u, 8)
             payload == SubSeq(full, lz + 1, 8)         \* full[lz - 8:]
         IN  <<BitOr(NEG_MULTI_MARKER, BitAnd(lz, 15))>> \o payload
    ELSE IF n.neg /\ BigLT(BigFromInt(NEG_1BYTE_MIN_Mag), n.mag)
    THEN LET x2 == NEG_2BYTE_MIN_Mag - BigToInt(n.mag)
         IN  <<BitOr(NEG_2BYTE_MARKER, BitAnd(Shr(x2, 8), 31)), BitAnd(x2, 255)>>
    ELSE IF n.neg
    THEN LET x3 == NEG_1BYTE_MIN_Mag - BigToInt(n.mag)
         IN  <<BitOr(NEG_1BYTE_MARKER, BitAnd(x3, 63))>>
    ELSE IF BigLE(n.mag, BigFromInt(POS_1BYTE_MAX))
    THEN <<BitOr(POS_1BYTE_MARKER, BitAnd(BigToInt(n.mag), 63))>>
    ELSE IF BigLE(n.mag, BigFromInt(POS_2BYTE_MAX))
    THEN LET v == BigToInt(n.mag) - (POS_1BYTE_MAX + 1)
         IN  <<BitOr(POS_2BYTE_MARKER, BitAnd(Shr(v, 8), 31)), BitAnd(v, 255)>>
    ELSE IF n.mag = BigFromInt(POS_2BYTE_MAX + 1)
    THEN <<BitOr(POS_MULTI_MARKER, 1), 0>>
    ELSE LET v == BigSub(n.mag, BigFromInt(POS_2BYTE_MAX + 1))
             length == Max(1, (BigBitLength(v) + 7) \div 8)
         IN  IF length > 8 THEN <<>>     \* raise ValueError; not reached in range
             ELSE <<BitOr(POS_MULTI_MARKER, length)>> \o BigToBytesBE(v, length)

RECURSIVE WtEncodeFrom(_, _, _)
WtEncodeFrom(out, s, k) ==
    IF k > Len(s) THEN EncBytes(out)
    ELSE IF WtOutOfRange(s[k]) THEN EncRaised
    ELSE LET bs == WtEncodeValue(s[k])
         IN  IF bs = <<>> THEN EncRaised ELSE WtEncodeFrom(out \o bs, s, k + 1)

\* bit_encode_small(s) as one call
bit_encode_small(s) == WtEncodeFrom(<<>>, s, 1)

\* one iteration of "while count > 0" at index i: the value and the next
\* index, or the error raised
WtDecodeValue(d, i) ==
    IF i >= Len(d) THEN [ok |-> FALSE, err |-> "insufficient data to decode value"]
    ELSE
    LET b0 == d[i + 1]
        top == BitAnd(b0, 240)
    IN  IF top = NEG_MULTI_MARKER
        THEN LET lz == BitAnd(b0, 15)
                 length == 8 - lz
                 end == i + 1 + length
             IN  IF length <= 0 \/ length > 8
                 THEN [ok |-> FALSE, err |-> "invalid negative multi length header"]
                 ELSE IF end > Len(d)
                 THEN [ok |-> FALSE, err |-> "truncated negative multi value"]
                 ELSE LET payload == SubSeq(d, i + 2, end)
                          u == BigFromBytesBE(SubSeq([k \in 1..lz |-> 255], 1, lz) \o payload)
                      IN  [ok |-> TRUE, i |-> end,
                           val |-> IF u[8] >= 128 THEN NegVal(BigSub(BigPow2(64), u)) ELSE Val(u)]
        ELSE IF top \in {NEG_2BYTE_MARKER, BitOr(NEG_2BYTE_MARKER, 16)}
        THEN IF i + 1 >= Len(d)
             THEN [ok |-> FALSE, err |-> "truncated 2-byte negative value"]
             ELSE LET v == BitOr(Shl(BitAnd(b0, 31), 8), d[i + 2])
                  IN  [ok |-> TRUE, i |-> i + 2, val |-> NegVal(BigFromInt(NEG_2BYTE_MIN_Mag - v))]
        ELSE IF top \in {NEG_1BYTE_MARKER, BitOr(NEG_1BYTE_MARKER, 16),
                         BitOr(NEG_1BYTE_MARKER, 32), BitOr(NEG_1BYTE_MARKER, 48)}
        THEN [ok |-> TRUE, i |-> i + 1, val |-> NegVal(BigFromInt(NEG_1BYTE_MIN_Mag - BitAnd(b0, 63)))]
        ELSE IF top \in {128, 144, 160, 176}
        THEN [ok |-> TRUE, i |-> i + 1, val |-> IntVal(BitAnd(b0, 63))]
        ELSE IF top \in {192, 208}
        THEN IF i + 1 >= Len(d)
             THEN [ok |-> FALSE, err |-> "truncated 2-byte positive value"]
             ELSE LET v == BitOr(Shl(BitAnd(b0, 31), 8), d[i + 2])
                  IN  [ok |-> TRUE, i |-> i + 2, val |-> IntVal(v + POS_1BYTE_MAX + 1)]
        ELSE IF top = POS_MULTI_MARKER
        THEN LET length == BitAnd(b0, 15)
                 end == i + 1 + length
             IN  IF length = 0 \/ length > 8
                 THEN [ok |-> FALSE, err |-> "invalid multi-byte positive length"]
                 ELSE IF end > Len(d)
                 THEN [ok |-> FALSE, err |-> "truncated multi-byte positive value"]
                 ELSE LET v == BigFromBytesBE(SubSeq(d, i + 2, end))
                      IN  [ok |-> TRUE, i |-> end,
                           val |-> Val(BigAdd(v, BigFromInt(POS_2BYTE_MAX + 1)))]
        ELSE [ok |-> FALSE, err |-> "invalid marker byte"]

RECURSIVE WtDecodeFrom(_, _, _, _)
WtDecodeFrom(d, c, res, i) ==
    IF c > 0
    THEN LET s == WtDecodeValue(d, i)
         IN  IF s.ok THEN WtDecodeFrom(d, c - 1, Append(res, s.val), s.i)
             ELSE DecRaised(res, s.err)
    ELSE DecReturned(res)

\* bit_decode_small(d, c) as one call
bit_decode_small(d, c) == WtDecodeFrom(d, c, <<>>, 0)

-----------------------------------------------------------------------------
(* small_int8.py: biased 7-bit continuation code *)

BigOne == BigFromInt(1)

\* Encode8Value without "n -= 1" behind a continuation byte
RECURSIVE Encode8Value_NoBias(_)
Encode8Value_NoBias(n) ==
    LET chunk == BigToInt(BigMask(n, 7))
        rest == BigShr(n, 7)
    IN  IF rest # BigZero
        THEN <<BitOr(chunk, 128)>> \o Encode8Value_NoBias(rest)
        ELSE <<chunk>>

\* the bytes the "while True" loop appends for one value n >= 0
RECURSIVE Encode8Value(_)
Encode8Value(n) ==
    LET chunk == BigToInt(BigMask(n, 7))
        rest == BigShr(n, 7)
    IN  IF rest # BigZero
        THEN <<BitOr(chunk, 128)>> \o Encode8Value(BigSub(rest, BigOne))
        ELSE <<chunk>>

RECURSIVE Encode8From(_, _, _)
Encode8From(out, s, k) ==
    IF k > Len(s) THEN EncBytes(out)
    ELSE IF s[k].neg THEN EncRaised
    ELSE Encode8From(out \o Encode8Value(s[k].mag), s, k + 1)

bit_encode_small_unsigned_8(s) == Encode8From(<<>>, s, 1)

Incomplete == "Incomplete data"
TooMany == "Too many integers requested"

\* AfterLoop8 that returns what was decoded without looking at n, shift, count
AfterLoop8_NoChecks(result, n, shift, c) == DecReturned(result)

\* AfterLoop8 without "if count > 0: raise"
AfterLoop8_NoCountCheck(result, n, shift, c) ==
    IF n # BigZero \/ shift # 0 THEN DecRaised(result, Incomplete)
    ELSE DecReturned(result)

\* the statements behind the "for byte in data" loop
AfterLoop8(result, n, shift, c) ==
    IF n # BigZero \/ shift # 0 THEN DecRaised(result, Incomplete)
    ELSE IF c > 0 THEN DecRaised(result, TooMany)
    ELSE DecReturned(result)

\* "for byte in data" from byte k on, with the locals result, n, shift, count
RECURSIVE Decode8From(_, _, _, _, _, _)
Decode8From(d, k, result, n, shift, c) ==
    IF k > Len(d)
    THEN AfterLoop8(result, n, shift, c)
    ELSE LET byte == d[k]
             low == BitAnd(byte, 127)
             val == IF shift # 0 THEN BigShl(BigFromInt(low + 1), shift) ELSE BigFromInt(low)
             n2 == BigAdd(n, val)
         IN  IF BitAnd(byte, 128) = 0
             THEN IF c - 1 <= 0 THEN DecReturned(Append(result, Val(n2)))
                  ELSE Decode8From(d, k + 1, Append(result, Val(n2)), BigZero, 0, c - 1)
             ELSE Decode8From(d, k + 1, result, n2, shift + 7, c)

bit_decode_small_unsigned_8(d, c) == Decode8From(d, 1, <<>>, BigZero, 0, c)

-----------------------------------------------------------------------------
(* small_int8_proto.py: standard base-128 varint *)

\* the bytes the "while True" loop appends for one value n >= 0
RECURSIVE EncodeProtoValue(_)
EncodeProtoValue(n) ==
    LET byte == BigToInt(BigMask(n, 7))
        rest == BigShr(n, 7)
    IN  IF rest # BigZero
        THEN <<BitOr(byte, 128)>> \o EncodeProtoValue(rest)
        ELSE <<byte>>

RECURSIVE EncodeProtoFrom(_, _, _)
EncodeProtoFrom(out, s, k) ==
    IF k > Len(s) THEN EncBytes(out)
    ELSE IF s[k].neg THEN EncRaised
    ELSE EncodeProtoFrom(out \o EncodeProtoValue(s[k].mag), s, k + 1)

bit_encode_small_unsigned_proto(s) == EncodeProtoFrom(<<>>, s, 1)

\* "for b in data" from byte k on, with the locals result, n, shift, count
RECURSIVE DecodeProtoFrom(_, _, _, _, _, _)
DecodeProtoFrom(d, k, result, n, shift, c) ==
    IF k > Len(d)
    THEN IF n # BigZero \/ shift # 0 THEN DecRaised(result, Incomplete)
         ELSE IF c > 0 THEN DecRaised(result, TooMany)
         ELSE DecReturned(result)
    ELSE LET b == d[k]
             n2 == BigOr(n, BigShl(BigFromInt(BitAnd(b, 127)), shift))
         IN  IF BitAnd(b, 128) = 0
             THEN IF c - 1 = 0 THEN DecReturned(Append(result, Val(n2)))
                  ELSE DecodeProtoFrom(d, k + 1, Append(result, Val(n2)), BigZero, 0, c - 1)
             ELSE IF shift + 7 > 70 THEN DecRaised(result, "Varint too long or overflow")
                  ELSE DecodeProtoFrom(d, k + 1, result, n2, shift + 7, c)

bit_decode_small_unsigned_proto(d, c) == DecodeProtoFrom(d, 1, <<>>, BigZero, 0, c)

-----------------------------------------------------------------------------
(* small_int4.py: biased 3-bit continuation code in nibbles *)

\* bit_encode_one: w holds the closure's result and nibble
RECURSIVE bit_encode_one(_, _)
bit_encode_one(w, n) ==
    LET low == BigToInt(BigMask(n, 3))
        rest == BigShr(n, 3)
        chunk == IF rest # BigZero THEN BitOr(low, 8) ELSE low
    IN  IF w.nibble = 0
        THEN LET stored == [result |-> Append(w.result, chunk), nibble |-> 1]
             IN  IF rest = BigZero THEN stored
                 ELSE bit_encode_one(stored, BigSub(rest, BigOne))
        ELSE LET merged == [result |-> Front(w.result)
                                         \o <<BitOr(Last(w.result), Shl(chunk, 4))>>,
                            nibble |-> 0]
             IN  IF rest = BigZero THEN merged
                 ELSE bit_encode_one(merged, BigSub(rest, BigOne))

RECURSIVE Encode4From(_, _, _)
Encode4From(w, s, k) ==
    IF k > Len(s) THEN EncBytes(w.result)
    ELSE IF s[k].neg THEN EncRaised
    ELSE Encode4From(bit_encode_one(w, s[k].mag), s, k + 1)

bit_encode_small_unsigned_4(s) == Encode4From([result |-> <<>>, nibble |-> 0], s, 1)

\* the chunks "for byte in data: for chunk in (byte & 0b1111, byte >> 4)" visits
Chunks4(d) ==
    SubSeq([j \in 1..(2 * Len(d)) |->
              IF j % 2 = 1 THEN BitAnd(d[(j + 1) \div 2], 15) ELSE Shr(d[j \div 2], 4)],
           1, 2 * Len(d))

\* the two loops from chunk j on, with the locals result, n, shift, count
RECURSIVE Decode4From(_, _, _, _, _, _)
Decode4From(cs, j, result, n, shift, c) ==
    IF j > Len(cs)
    THEN IF n # BigZero \/ shift # 0 THEN DecRaised(result, Incomplete)
         ELSE IF c > 0 THEN DecRaised(result, TooMany)
         ELSE DecReturned(result)
    ELSE LET chunk == cs[j]
             low == BitAnd(chunk, 7)
             val == IF shift # 0 THEN BigShl(BigFromInt(low + 1), shift) ELSE BigFromInt(low)
             n2 == BigAdd(n, val)
         IN  IF BitAnd(chunk, 8) = 0
             THEN IF c - 1 <= 0 THEN DecReturned(Append(result, Val(n2)))
                  ELSE Decode4From(cs, j + 1, Append(result, Val(n2)), BigZero, 0, c - 1)
             ELSE Decode4From(cs, j + 1, result, n2, shift + 3, c)

bit_decode_small_unsigned_4(d, c) == Decode4From(Chunks4(d), 1, <<>>, BigZero, 0, c)

-----------------------------------------------------------------------------
(* small_int1_elias_o.py: Elias omega code with LSB-first tails *)

\* emit_bit: w holds the closure's out and bit_pos
emit_bit(w, b) ==
    LET o == IF b # 0 THEN OrLast(w.out, 2 ^ w.bit_pos) ELSE w.out
    IN  IF w.bit_pos + 1 = 8
        THEN [out |-> Append(o, 0), bit_pos |-> 0]
        ELSE [out |-> o, bit_pos |-> w.bit_pos + 1]

\* (value >> i) & 1
BigBit(value, i) == (value[(i \div 8) + 1] \div (2 ^ (i % 8))) % 2

\* "for i in range(n_bits)" of emit_tail_lsb from i on; bit_pos is below 8
\* whenever emit_bit has returned
RECURSIVE EmitTailFrom(_, _, _, _)
EmitTailFrom(w, value, i, n_bits) ==
    IF i >= n_bits \/ w.bit_pos >= 8 THEN w
    ELSE EmitTailFrom(emit_bit(w, BigBit(value, i)), value, i + 1, n_bits)

emit_tail_lsb(w, value, n_bits) == EmitTailFrom(w, value, 0, n_bits)

\* segs: "while t > 1: segs.append(t); t = t.bit_length() - 1"
RECURSIVE OmegaSegs(_)
OmegaSegs(t) ==
    IF BigLE(t, BigOne) THEN <<>>
    ELSE <<t>> \o OmegaSegs(BigFromInt(BigBitLength(t) - 1))

\* "for s in reversed(segs)" from segs[j] down
RECURSIVE EmitSegs(_, _, _)
EmitSegs(w, segs, j) ==
    IF j < 1 \/ w.bit_pos >= 8 THEN w
    ELSE LET s == segs[j]
             bl == BigBitLength(s)
             w1 == emit_bit(w, 1)
             w2 == IF bl > 1 THEN emit_tail_lsb(w1, BigMask(s, bl - 1), bl - 1) ELSE w1
         IN  EmitSegs(w2, segs, j - 1)

\* the body of "for v in a" for v >= 0
EncodeOmegaValue(w, v) ==
    LET segs == OmegaSegs(BigAdd(v, BigOne))
    IN  emit_bit(EmitSegs(w, segs, Len(segs)), 0)

RECURSIVE EncodeOmegaFrom(_, _, _)
EncodeOmegaFrom(w, s, k) ==
    IF k > Len(s)
    THEN EncBytes(IF w.bit_pos = 0 /\ Len(w.out) > 1 THEN Front(w.out) ELSE w.out)
    ELSE IF s[k].neg THEN EncRaised
    ELSE EncodeOmegaFrom(EncodeOmegaValue(w, s[k].mag), s, k + 1)

bit_encode_small_unsigned_eo(s) == EncodeOmegaFrom([out |-> <<0>>, bit_pos |-> 0], s, 1)

EndOfBits == "Unexpected end of data while reading bit"
OmegaTooLarge == "Omega code length parameter too large"
NegativeCount == "count must be non-negative"

\* bit p of the data, p = 8 * byte_index + bit_pos
DataBit(d, p) == (d[(p \div 8) + 1] \div (2 ^ (p % 8))) % 2

\* the n bits from bit p on, the first one least significant (n <= 64)
DataBits(d, p, n) ==
    LET q == p \div 8
    IN  BigMask(BigShr(BigFromBytesLE(SubSeq(d, q + 1, Min(Len(d), q + NLimbs))), p % 8), n)

\* "while len(res) < count" with the cursor at bit p
RECURSIVE DecodeOmegaFrom(_, _, _, _, _)
DecodeOmegaFrom(d, c, res, p, current_n) ==
    IF Len(res) >= c THEN DecReturned(res)
    ELSE IF p >= 8 * Len(d) THEN DecRaised(res, EndOfBits)
    ELSE IF DataBit(d, p) = 0
    THEN DecodeOmegaFrom(d, c, Append(res, Val(BigSub(current_n, BigOne))), p + 1, BigOne)
    ELSE IF BigLT(BigFromInt(64), current_n) THEN DecRaised(res, OmegaTooLarge)
    ELSE LET k == BigToInt(current_n)
         IN  IF p + 1 + k > 8 * Len(d) THEN DecRaised(res, EndOfBits)
             ELSE DecodeOmegaFrom(d, c, res, p + 1 + k,
                                  BigOr(BigPow2(k), DataBits(d, p + 1, k)))

bit_decode_small_unsigned_eo(d, c) ==
    IF c < 0 THEN DecRaised(<<>>, NegativeCount)
    ELSE IF c = 0 THEN DecReturned(<<>>)
    ELSE DecodeOmegaFrom(d, c, <<>>, 0, BigOne)

-----------------------------------------------------------------------------
(* small_int4_rle0.py: nibble code with unary prefixes and raw forms *)

_VALUE_BITS == <<3, 6, 9, 12, 19, 26>>
_CAPACITY_rle0 == SubSeq([i \in 1..Len(_VALUE_BITS) |-> 2 ^ _VALUE_BITS[i]], 1, Len(_VALUE_BITS))
\* _SHIFT[k] and _TOP[k] of the source are _SHIFT_rle0[k + 1] and _TOP_rle0[k + 1]
_SHIFT_rle0 ==
    SubSeq([i \in 1..Len(_VALUE_BITS) |-> SumTo(_CAPACITY_rle0, i - 1)], 1, Len(_VALUE_BITS))
_TOP_rle0 ==
    SubSeq([i \in 1..Len(_VALUE_BITS) |-> _SHIFT_rle0[i] + _CAPACITY_rle0[i] - 1],
           1, Len(_VALUE_BITS))
_MAX_SMALL_rle0 == _TOP_rle0[6]

\* the nibbles of the small form k (1-based)
FormNibbles == <<1, 2, 3, 4, 6, 8>>

\* emit_nibble: w holds the closure's out and nibble_phase
emit_nibble(w, nib) ==
    IF w.nibble_phase = 0
    THEN [out |-> Append(w.out, BitAnd(nib, 15)), nibble_phase |-> 1]
    ELSE [out |-> OrLast(w.out, Shl(BitAnd(nib, 15), 4)), nibble_phase |-> 0]

\* code & 0x0F and code & 0xFF of a Big
LowNibble(code) == code[1] % 16
LowByte(code) == code[1]

\* "while n_nibbles > 1" and "if n_nibbles == 1" of emit_code
RECURSIVE EmitCodeAligned(_, _, _)
EmitCodeAligned(w, code, n_nibbles) ==
    IF n_nibbles > 1
    THEN EmitCodeAligned([out |-> Append(w.out, LowByte(code)), nibble_phase |-> w.nibble_phase],
                         BigShr(code, 8), n_nibbles - 2)
    ELSE IF n_nibbles = 1 THEN emit_nibble(w, LowNibble(code))
    ELSE w

emit_code(w, code, n_nibbles) ==
    IF n_nibbles <= 1 THEN emit_nibble(w, LowNibble(code))
    ELSE IF w.nibble_phase = 1
    THEN EmitCodeAligned(emit_nibble(w, LowNibble(code)), BigShr(code, 4), n_nibbles - 1)
    ELSE EmitCodeAligned(w, code, n_nibbles)

\* the if/elif chain of the encoder: the small form (1..6) of n, or 7 for raw
EncoderForm_rle0(n) ==
    IF BigLE(n, BigFromInt(_TOP_rle0[1])) THEN 1
    ELSE IF BigLE(n, BigFromInt(_TOP_rle0[2])) THEN 2
    ELSE IF BigLE(n, BigFromInt(_TOP_rle0[3])) THEN 3
    ELSE IF BigLE(n, BigFromInt(_TOP_rle0[4])) THEN 4
    ELSE IF BigLE(n, BigFromInt(_TOP_rle0[5])) THEN 5
    ELSE IF BigLE(n, BigFromInt(_TOP_rle0[6])) THEN 6
    ELSE 7

\* the body of "for n in a" once the range check has passed
EncodeValue_rle0(w, n) ==
    LET k == EncoderForm_rle0(n)
    IN  IF k <= 6
        THEN LET s == BigFromInt(BigToInt(n) - _SHIFT_rle0[k])
             IN  emit_code(w, BigOr(BigShl(s, k), BigFromInt(2 ^ (k - 1))), FormNibbles[k])
        ELSE LET adj == BigSub(n, BigFromInt(_MAX_SMALL_rle0 + 1))
             IN  IF BigLT(adj, BigPow2(32))
                 THEN emit_code(emit_code(w, BigFromInt(192), 2), adj, 8)
                 ELSE IF BigLT(adj, BigPow2(40))
                 THEN emit_code(emit_code(w, BigFromInt(64), 2), adj, 10)
                 ELSE IF BigLT(adj, BigPow2(48))
                 THEN emit_code(emit_code(w, BigFromInt(128), 2), adj, 12)
                 ELSE emit_code(emit_code(w, BigZero, 2), adj, 16)

RECURSIVE EncodeFrom_rle0(_, _, _)
EncodeFrom_rle0(w, s, k) ==
    IF k > Len(s) THEN EncBytes(w.out)
    ELSE IF OutOfRange(s[k]) THEN EncRaised
    ELSE EncodeFrom_rle0(EncodeValue_rle0(w, s[k].mag), s, k + 1)

bit_encode_small_unsigned_rle0(s) == EncodeFrom_rle0([out |-> <<>>, nibble_phase |-> 0], s, 1)

EndOfNibbles == "Unexpected end of data while reading nibble"
EndOfBytes == "Unexpected end of data while reading byte"
InvalidPrefix == "Invalid prefix"

NibbleFail(msg) == [ok |-> FALSE, err |-> msg, val |-> BigZero, byte_index |-> 0, nibble_phase |-> 0]

\* peek_two_nibbles that never looks into the next byte
peek_two_nibbles_CurrentByteOnly(d, r) ==
    IF r.nibble_phase = 0 THEN d[r.byte_index + 1]
    ELSE BitAnd(Shr(d[r.byte_index + 1], 4), 15)

\* peek_two_nibbles where byte_index < byte_len; r holds byte_index and nibble_phase
peek_two_nibbles(d, r) ==
    IF r.nibble_phase = 0 THEN d[r.byte_index + 1]
    ELSE LET ret == BitAnd(Shr(d[r.byte_index + 1], 4), 15)
         IN  IF r.byte_index + 1 < Len(d)
             THEN BitOr(ret, BitAnd(Shl(d[r.byte_index + 2], 4), 240))
             ELSE ret

read_nibble(d, r) ==
    IF r.byte_index >= Len(d) THEN NibbleFail(EndOfNibbles)
    ELSE LET b == d[r.byte_index + 1]
         IN  IF r.nibble_phase = 0
             THEN [ok |-> TRUE, err |-> "", val |-> BigFromInt(BitAnd(b, 15)),
                   byte_index |-> r.byte_index, nibble_phase |-> 1]
             ELSE [ok |-> TRUE, err |-> "", val |-> BigFromInt(BitAnd(Shr(b, 4), 15)),
                   byte_index |-> r.byte_index + 1, nibble_phase |-> 0]

\* "while n >= 2" and "if n == 1" of read_nibbles; the reader is at a low nibble
RECURSIVE ReadNibblesAligned(_, _, _, _, _)
ReadNibblesAligned(d, val, shift, byte_index, n) ==
    IF n >= 2
    THEN IF byte_index >= Len(d) THEN NibbleFail(EndOfBytes)
         ELSE ReadNibblesAligned(d, BigOr(val, BigShl(BigFromInt(d[byte_index + 1]), shift)),
                                 shift + 8, byte_index + 1, n - 2)
    ELSE IF n = 1
    THEN LET x == read_nibble(d, [byte_index |-> byte_index, nibble_phase |-> 0])
         IN  IF x.ok THEN [x EXCEPT !.val = BigOr(val, BigShl(x.val, shift))] ELSE x
    ELSE [ok |-> TRUE, err |-> "", val |-> val, byte_index |-> byte_index, nibble_phase |-> 0]

read_nibbles(d, r, n) ==
    IF n <= 1 THEN read_nibble(d, r)
    ELSE IF r.nibble_phase = 1
    THEN LET x == read_nibble(d, r)
         IN  IF x.ok THEN ReadNibblesAligned(d, x.val, 4, x.byte_index, n - 1) ELSE x
    ELSE ReadNibblesAligned(d, BigZero, 0, r.byte_index, n)

\* the form the decoder's chain of tests on the preview selects: 1..6, or 7 for raw
DecoderForm_rle0(preview) ==
    IF BitAnd(preview, 1) # 0 THEN 1
    ELSE IF BitAnd(preview, 2) # 0 THEN 2
    ELSE IF BitAnd(preview, 4) # 0 THEN 3
    ELSE IF BitAnd(preview, 8) # 0 THEN 4
    ELSE IF BitAnd(preview, 16) # 0 THEN 5
    ELSE IF BitAnd(preview, 32) # 0 THEN 6
    ELSE 7

\* one iteration of "while len(res) < count" where byte_index < byte_len:
\* ok with the value and the reader behind it, or the error raised
DecodeValue_rle0(d, r) ==
    LET preview == peek_two_nibbles(d, r)
        k == DecoderForm_rle0(preview)
    IN  IF k <= 6
        THEN LET x == read_nibbles(d, r, FormNibbles[k])
             IN  IF x.ok
                 THEN [x EXCEPT !.val = BigAdd(BigFromInt(_SHIFT_rle0[k]), BigShr(x.val, k))]
                 ELSE x
        ELSE LET r1 == [byte_index |-> r.byte_index + 1, nibble_phase |-> r.nibble_phase]
                 n == IF preview = 192 THEN 8
                      ELSE IF preview = 64 THEN 10
                      ELSE IF preview = 128 THEN 12
                      ELSE IF preview = 0 THEN 16
                      ELSE 0
             IN  IF n = 0 THEN NibbleFail(InvalidPrefix)
                 ELSE LET x == read_nibbles(d, r1, n)
                      IN  IF x.ok
                          THEN [x EXCEPT !.val = BigAdd(BigFromInt(_MAX_SMALL_rle0 + 1), x.val)]
                          ELSE x

RECURSIVE DecodeFrom_rle0(_, _, _, _)
DecodeFrom_rle0(d, c, res, r) ==
    IF Len(res) >= c THEN DecReturned(res)
    ELSE IF r.byte_index >= Len(d) THEN DecRaised(res, NotEnough)
    ELSE LET x == DecodeValue_rle0(d, r)
         IN  IF x.ok
             THEN DecodeFrom_rle0(d, c, Append(res, Val(x.val)),
                                  [byte_index |-> x.byte_index, nibble_phase |-> x.nibble_phase])
             ELSE DecRaised(res, x.err)

bit_decode_small_unsigned_rle0(d, c) ==
    IF c < 0 THEN DecRaised(<<>>, NegativeCount)
    ELSE DecodeFrom_rle0(d, c, <<>>, [byte_index |-> 0, nibble_phase |-> 0])

-----------------------------------------------------------------------------
(* small_int1_elias_d.py and small_int1_elias_d2.py: Elias delta codes *)

\* emit_bits_lsb of both modules: the low n_bits bits of value, LSB-first
emit_bits_lsb(w, value, n_bits) == EmitTailFrom(w, value, 0, n_bits)

\* the buffer handed back as it is, an empty last byte included
FinishBits_KeepsLast(w) == EncBytes(w.out)

\* what is returned: the last byte is dropped when it is empty and not the only one
FinishBits(w) == EncBytes(IF w.bit_pos = 0 /\ Len(w.out) > 1 THEN Front(w.out) ELSE w.out)

\* small_int1_elias_d.py: the body of "for v in a" for v >= 0
EncodeDeltaValue(w, v) ==
    LET n == BigAdd(v, BigOne)
        N == BigBitLength(n)
        L == IntBitLength(N) - 1
        w1 == emit_bit(emit_bits_lsb(w, BigZero, L), 1)
        w2 == IF L # 0 THEN emit_bits_lsb(w1, BigFromInt(BitAnd(N, (2 ^ L) - 1)), L) ELSE w1
    IN  IF N > 1 THEN emit_bits_lsb(w2, BigMask(n, N - 1), N - 1) ELSE w2

RECURSIVE EncodeDeltaFrom(_, _, _)
EncodeDeltaFrom(w, s, k) ==
    IF k > Len(s) \/ w.bit_pos >= 8 THEN FinishBits(w)
    ELSE IF s[k].neg THEN EncRaised
    ELSE EncodeDeltaFrom(EncodeDeltaValue(w, s[k].mag), s, k + 1)

bit_encode_small_unsigned_ed(s) == EncodeDeltaFrom([out |-> <<0>>, bit_pos |-> 0], s, 1)

DeltaTooLong == "Delta code too long or malformed"
UnaryTooLong == "Unary code too long or malformed"

\* the loop that reads the unary zeros from bit p on, L zeros read so far:
\* the count of zeros and the bit behind the delimiter, or the error raised
RECURSIVE ReadUnary(_, _, _, _)
ReadUnary(d, p, L, msg) ==
    IF p >= 8 * Len(d) THEN [ok |-> FALSE, err |-> EndOfBits, L |-> L, p |-> p]
    ELSE IF DataBit(d, p) # 0 THEN [ok |-> TRUE, err |-> "", L |-> L, p |-> p + 1]
    ELSE IF L + 1 > 64 THEN [ok |-> FALSE, err |-> msg, L |-> L, p |-> p]
    ELSE ReadUnary(d, p + 1, L + 1, msg)

\* a tail read without the leading one bit of the value
ReadDeltaTail_NoLeadingOne(d, p, L) ==
    IF p + L > 8 * Len(d) \/ L >= 30 THEN [ok |-> FALSE, val |-> BigZero, p |-> p]
    ELSE LET len == BitOr(2 ^ L, BigToInt(DataBits(d, p, L))) - 1
         IN  IF p + L + len > 8 * Len(d) THEN [ok |-> FALSE, val |-> BigZero, p |-> p]
             ELSE [ok |-> TRUE, val |-> DataBits(d, p + L, len), p |-> p + L + len]

\* a length field and the value tail behind it: the tail has len bits when
\* the field of L bits reads as 2^L | tailN = len + 1.  A field of 30 bits
\* or more asks for more tail bits than any data of the model holds.
ReadDeltaTail(d, p, L) ==
    IF p + L > 8 * Len(d) \/ L >= 30 THEN [ok |-> FALSE, val |-> BigZero, p |-> p]
    ELSE LET len == BitOr(2 ^ L, BigToInt(DataBits(d, p, L))) - 1
         IN  IF p + L + len > 8 * Len(d) THEN [ok |-> FALSE, val |-> BigZero, p |-> p]
             ELSE [ok |-> TRUE,
                   val |-> BigOr(BigPow2(len), DataBits(d, p + L, len)),
                   p |-> p + L + len]

\* small_int1_elias_d.py: "while len(res) < count" with the cursor at bit p
RECURSIVE DecodeDeltaFrom(_, _, _, _)
DecodeDeltaFrom(d, c, res, p) ==
    IF Len(res) >= c THEN DecReturned(res)
    ELSE LET u == ReadUnary(d, p, 0, DeltaTooLong)
         IN  IF ~u.ok THEN DecRaised(res, u.err)
             ELSE LET t == ReadDeltaTail(d, u.p, u.L)
                  IN  IF ~t.ok THEN DecRaised(res, EndOfBits)
                      ELSE DecodeDeltaFrom(d, c, Append(res, Val(BigSub(t.val, BigOne))), t.p)

bit_decode_small_unsigned_ed(d, c) ==
    IF c < 0 THEN DecRaised(<<>>, NegativeCount)
    ELSE IF c = 0 THEN DecReturned(<<>>)
    ELSE DecodeDeltaFrom(d, c, <<>>, 0)

INITIAL_BITS == 1
INITIAL_MAX == (2 ^ INITIAL_BITS) - 1

\* small_int1_elias_d2.py: the body of "for v in a" for v >= 0
EncodeDelta2Value(w, v) ==
    IF BigLE(v, BigFromInt(INITIAL_MAX))
    THEN emit_bits_lsb(w, BigFromInt(BitOr(Shl(BigToInt(v), 1), 1)), INITIAL_BITS + 1)
    ELSE LET v2 == BigAdd(BigSub(v, BigFromInt(INITIAL_MAX)), BigOne)
             bitlen == BigBitLength(v2)
             bitlenlen == IntBitLength(bitlen) - 1
             w1 == emit_bits_lsb(w, BigFromInt(2 ^ bitlenlen), bitlenlen + 1)
             w2 == emit_bits_lsb(w1, BigFromInt(bitlen), bitlenlen)
         IN  emit_bits_lsb(w2, v2, bitlen - 1)

RECURSIVE EncodeDelta2From(_, _, _)
EncodeDelta2From(w, s, k) ==
    IF k > Len(s) \/ w.bit_pos >= 8 THEN FinishBits(w)
    ELSE IF s[k].neg THEN EncRaised
    ELSE EncodeDelta2From(EncodeDelta2Value(w, s[k].mag), s, k + 1)

bit_encode_small_unsigned_ed2(s) == EncodeDelta2From([out |-> <<0>>, bit_pos |-> 0], s, 1)

\* small_int1_elias_d2.py: "while len(res) < count" with the cursor at bit p
RECURSIVE DecodeDelta2From(_, _, _, _)
DecodeDelta2From(d, c, res, p) ==
    IF Len(res) >= c THEN DecReturned(res)
    ELSE LET u == ReadUnary(d, p, 0, UnaryTooLong)
         IN  IF ~u.ok THEN DecRaised(res, u.err)
             ELSE IF u.L = 0
             THEN IF u.p + INITIAL_BITS > 8 * Len(d) THEN DecRaised(res, EndOfBits)
                  ELSE DecodeDelta2From(d, c, Append(res, Val(DataBits(d, u.p, INITIAL_BITS))),
                                        u.p + INITIAL_BITS)
             ELSE LET t == ReadDeltaTail(d, u.p, u.L)
                  IN  IF ~t.ok THEN DecRaised(res, EndOfBits)
                      ELSE DecodeDelta2From(d, c,
                               Append(res, Val(BigSub(BigAdd(t.val, BigFromInt(INITIAL_MAX)), BigOne))),
                               t.p)

bit_decode_small_unsigned_ed2(d, c) ==
    IF c < 0 THEN DecRaised(<<>>, NegativeCount)
    ELSE IF c = 0 THEN DecReturned(<<>>)
    ELSE DecodeDelta2From(d, c, <<>>, 0)

-----------------------------------------------------------------------------
(* Inputs of the runs *)

\* the values b - d and b + d that are not negative, d <= 2
Around(b) ==
    {Val(BigAdd(b, BigFromInt(d))) : d \in 0..2} \cup
    {Val(BigSub(b, BigFromInt(d))) : d \in {e \in 0..2 : BigLE(BigFromInt(e), b)}}

\* small_int1.py "boundaries": the ends of the forms and of the raw lengths
Boundaries1 ==
    {BigFromInt(n) : n \in {0, 1, 2, 5, 6, 37, 38, 293, 294, 4389, 4390, 69925, 69926, 594213, 594214}}
    \cup {BigAdd(BigFromInt(_MAX_SMALL), BigPow2(k)) : k \in {24, 32, 40, 48, 56}}
    \cup {BigAdd(BigFromInt(_MAX_SMALL + 1), BigPow2(k)) : k \in {24, 32, 40, 48, 56}}
    \cup {U64_MAX}

\* small_int1.py "extended": each boundary with its neighbours, inside 0..2^64-1
Extended1 == {v \in UNION {Around(b) : b \in Boundaries1} : BigLE(v.mag, U64_MAX)}

\* values outside 0..2^64-1, which the encoder refuses
Invalid1 == {NegVal(BigFromInt(1)), Val(BigPow2(64))}

\* one value of each form, for the sequences (cf. small_int1.py "arr")
SeqValues1 ==
    {IntVal(n) : n \in {0, 2, 6, 38, 294, 4390, 69926, 594214}} \cup {Val(U64_MAX)}

Inputs1 ==
    {<<v>> : v \in Extended1 \cup Invalid1} \cup SeqsUpTo(SeqValues1, MaxLen)

\* bytes put behind an encoding to stand for unrelated data that follows it
ExtraBytes == {<<0>>, <<255>>}

DropLast(bs) == SubSeq(bs, 1, Len(bs) - 1)

\* the decoder inputs derived from the encoder output bs
Derived(bs) ==
    {[mode |-> "exact", data |-> bs]}
    \cup {[mode |-> "truncated", data |-> DropLast(bs)] : x \in {y \in {1} : Len(bs) > 1}}
    \cup {[mode |-> "extended", data |-> bs \o x] : x \in ExtraBytes}

\* the encoder output of the writer w with bits set in the part of the last
\* byte that the writer did not fill: all of them, the lowest, the highest
Padded(w) ==
    {[mode |-> "padded", data |-> OrLast(w.out, x)] :
        x \in {y \in {256 - (2 ^ w.bit_pos), 2 ^ w.bit_pos, 128} : w.bit_pos < 8}}

-----------------------------------------------------------------------------
(* Runs of small_int1: encode a, then decode count values from data *)

Enc1Init == [out |-> <<0>>, bit_pos |-> 0, i |-> 0]
Dec1Init == [res |-> <<>>, byte_index |-> 0, bit_pos |-> 0, err |-> ""]

\* arbitrary decoder input: any first byte, then a run of one repeated byte
RawData ==
    {<<>>} \cup
    {<<b>> \o [k \in 1..n |-> f] : b \in 0..255, f \in {0, 255}, n \in 0..(MaxRaw - 1)}

\* a run starts either with an encode call on a, or with a decode call on
\* bytes that no encoder produced
Init1 ==
    /\ codec = "small_int1"
    /\ a \in Inputs1 \cup {<<>>}
    /\ enc = Enc1Init
    /\ dec = Dec1Init
    /\ \/ /\ a \in Inputs1
          /\ pc = "encode"
          /\ data = <<>>
          /\ count = 0
          /\ mode = "none"
       \/ /\ a = <<>>
          /\ pc = "decode"
          /\ data \in RawData
          /\ count \in 0..MaxCount
          /\ mode = "raw"

\* one iteration of "for n in a"
Encode1Step ==
    /\ codec = "small_int1" /\ pc = "encode"
    /\ enc.i < Len(a)
    /\ ~OutOfRange(a[enc.i + 1])
    /\ LET w == EncodeValue([out |-> enc.out, bit_pos |-> enc.bit_pos], a[enc.i + 1].mag)
       IN  enc' = [out |-> w.out, bit_pos |-> w.bit_pos, i |-> enc.i + 1]
    /\ UNCHANGED <<codec, pc, a, data, count, dec, mode>>

\* raise ValueError("Value out of supported range (0..2^64-1)")
Encode1Raise ==
    /\ codec = "small_int1" /\ pc = "encode"
    /\ enc.i < Len(a)
    /\ OutOfRange(a[enc.i + 1])
    /\ pc' = "raised"
    /\ UNCHANGED <<codec, a, enc, data, count, dec, mode>>

\* return bytes(out)
Encode1Return ==
    /\ codec = "small_int1" /\ pc = "encode"
    /\ enc.i = Len(a)
    /\ pc' = "encoded"
    /\ UNCHANGED <<codec, a, enc, data, count, dec, mode>>

\* the call bit_decode_small_unsigned(data, count), up to the loop
Decode1Call ==
    /\ codec = "small_int1" /\ pc = "encoded"
    /\ \E d \in Derived(enc.out) \cup Padded(enc), c \in (-1)..(Len(a) + MaxOver) :
         /\ data' = d.data
         /\ mode' = d.mode
         /\ count' = c
         /\ pc' = IF c < 0 THEN "raised" ELSE "decode"
    /\ dec' = Dec1Init
    /\ UNCHANGED <<codec, a, enc>>

\* one iteration of "while len(res) < count" that appends a value
Decode1Step ==
    /\ codec = "small_int1" /\ pc = "decode"
    /\ Len(dec.res) < count
    /\ LET s == DecodeValue(data, dec)
       IN  /\ s.ok
           /\ dec' = [res |-> Append(dec.res, s.value), byte_index |-> s.byte_index,
                      bit_pos |-> s.bit_pos, err |-> ""]
    /\ UNCHANGED <<codec, pc, a, enc, data, count, mode>>

\* one iteration that raises ValueError
Decode1Raise ==
    /\ codec = "small_int1" /\ pc = "decode"
    /\ Len(dec.res) < count
    /\ LET s == DecodeValue(data, dec)
       IN  /\ ~s.ok
           /\ dec' = [dec EXCEPT !.err = s.err]
    /\ pc' = "raised"
    /\ UNCHANGED <<codec, a, enc, data, count, mode>>

\* return res
Decode1Return ==
    /\ codec = "small_int1" /\ pc = "decode"
    /\ Len(dec.res) >= count
    /\ pc' = "done"
    /\ UNCHANGED <<codec, a, enc, data, count, dec, mode>>

Next1 ==
    \/ Encode1Step
    \/ Encode1Raise
    \/ Encode1Return
    \/ Decode1Call
    \/ Decode1Step
    \/ Decode1Raise
    \/ Decode1Return

Spec == Init1 /\ [][Next1]_vars

-----------------------------------------------------------------------------
(* Properties of small_int1 *)

Returned == pc = "done"
Raised == pc = "raised"
Finished == Returned \/ Raised

\* C1: decoding the encoding of a list a for len(a) values returns a, for
\* one-element lists and for lists whose codewords start inside a byte.
C1_RoundTrip ==
    (codec = "small_int1" /\ mode = "exact" /\ count = Len(a) /\ Finished)
        => (Returned /\ dec.res = a)

\* a two-element list was decoded back: its second codeword is a raw form
\* that starts at bit 2 of the first byte
C1_Witness ==
    /\ codec = "small_int1" /\ mode = "exact" /\ Returned
    /\ a = <<IntVal(0), Val(U64_MAX)>>
    /\ count = 2
    /\ dec.res = a

\* C2: asking the decoder for more values than were encoded raises an
\* error; decode(encode([v1, v2]), 3) never returns a list.
C2_OverRequestRaises ==
    (codec = "small_int1" /\ mode = "exact" /\ Len(a) = 2 /\ count = 3 /\ Finished)
        => Raised

\* the length the claim gives for the encoding of the single value v
C5_Length(v) ==
    IF BigLE(v, BigFromInt(37)) THEN 1
    ELSE IF BigLE(v, BigFromInt(4389)) THEN 2
    ELSE IF BigLE(v, BigFromInt(594213)) THEN 3
    ELSE LET adj == BigSub(v, BigFromInt(594214))
             k == CHOOSE n \in 0..NLimbs :
                     /\ BigLT(adj, BigPow2(8 * n))
                     /\ \A m \in 0..NLimbs : BigLT(adj, BigPow2(8 * m)) => n <= m
         IN  1 + Max(3, k)

\* C5: the encoding of a single value v is 1 byte up to 37, 2 bytes up to
\* 4389, 3 bytes up to 594213 and 1 + max(3, ceil(bitlength(v - 594214) / 8))
\* bytes above; 2^64 - 1 takes 9 bytes.
C5_SingleLength ==
    (codec = "small_int1" /\ pc = "encoded" /\ Len(a) = 1)
        => Len(enc.out) = C5_Length(a[1].mag)

C5_Witness ==
    /\ codec = "small_int1" /\ pc = "encoded"
    /\ a = <<Val(U64_MAX)>>
    /\ Len(enc.out) = 9

\* C6: every value the decoder returns lies in 0..2^64-1, whatever the
\* bytes it was given.
C6_DecodedU64 ==
    (codec = "small_int1" /\ pc \in {"decode", "done"})
        => \A k \in 1..Len(dec.res) : ~OutOfRange(dec.res[k])

\* C7: for 0 <= k <= len(a) the decoder returns the first k values of a and
\* ignores what follows them, also when further bytes follow encode(a).
C7_PrefixConsumer ==
    (codec = "small_int1" /\ mode \in {"exact", "extended"}
        /\ count >= 0 /\ count <= Len(a) /\ Finished)
        => (Returned /\ dec.res = SubSeq(a, 1, count))

\* one value of two was asked for, with more bytes behind the encoding
C7_Witness ==
    /\ codec = "small_int1" /\ mode = "extended" /\ Returned
    /\ Len(a) = 2 /\ count = 1
    /\ dec.res = <<a[1]>>
    /\ dec.byte_index < Len(data) - 1

\* the six prefix patterns of the wire format, as tests on the peeked byte
PrefixTest(k, p) ==
    CASE k = 1 -> p % 2 = 0
      [] k = 2 -> p % 4 = 1
      [] k = 3 -> p % 8 = 3
      [] k = 4 -> p % 16 = 7
      [] k = 5 -> p % 32 = 15
      [] k = 6 -> p % 32 = 31

\* the pattern each form starts with; forms 4, 6 and 8 share the control byte
PatternOfForm(f) ==
    CASE f = 1 -> 1 [] f = 2 -> 2 [] f = 3 -> 3 [] f = 5 -> 4 [] f = 7 -> 5
      [] f \in {4, 6, 8} -> 6

\* C9: on every peeked byte exactly one of the six prefix tests holds and it
\* is the test of the branch taken (with N = bits 5..7 choosing among forms
\* 4, 6 and 8); on an encoding the branch taken at each codeword is the form
\* the encoder selected for the value.
C9_PrefixFreeDispatch ==
    (codec = "small_int1" /\ pc = "decode" /\ dec.byte_index < Len(data)) =>
        LET p == peek_upto8(data, dec)
            f == DecoderForm(p)
        IN  /\ Cardinality({k \in 1..6 : PrefixTest(k, p)}) = 1
            /\ PrefixTest(PatternOfForm(f), p)
            /\ (f = 4) = (p % 32 = 31 /\ p \div 32 = 0)
            /\ (f = 6) = (p % 32 = 31 /\ p \div 32 = 1)
            /\ (mode = "exact" /\ Len(dec.res) < Len(a))
                 => f = EncoderForm(a[Len(dec.res) + 1].mag)

\* the decoder stands before the control byte of a two-byte payload form
\* that the encoder wrote at bit 4, behind a four-bit codeword
C9_Witness ==
    /\ codec = "small_int1" /\ pc = "decode" /\ mode = "exact"
    /\ a = <<IntVal(2), IntVal(4390)>>
    /\ Len(dec.res) = 1 /\ count = 2
    /\ dec.bit_pos = 4
    /\ DecoderForm(peek_upto8(data, dec)) = 6

-----------------------------------------------------------------------------
(* Inputs of the byte and nibble codecs *)

\* small_int8_wt.py "boundary_values" with the value of the truncation test
WtPosBoundaries ==
    {BigFromInt(n) : n \in {0, 1, 62, 63, 64, 65}}
    \cup {BigFromInt(POS_1BYTE_MAX), BigFromInt(POS_1BYTE_MAX + 1)}
    \cup {BigFromInt(POS_2BYTE_MAX + d) : d \in {-1, 0, 1, 2, 255, 256, 257}}
    \cup {BigAdd(BigFromInt(POS_2BYTE_MAX), BigPow2(k)) : k \in {16, 24, 32, 40, 48, 56}}
    \cup {BigAdd(BigFromInt(POS_2BYTE_MAX + 1), BigPow2(k)) : k \in {16, 24, 32, 40, 48, 56}}
    \cup {BigSub(BigPow2(63), BigOne), U64_MAX}
    \cup {BigAdd(BigPow2(35), BigFromInt(12345))}

\* magnitudes of the negative values at which the marker or the payload
\* length of bit_encode_small changes
WtNegBoundaries ==
    {BigFromInt(n) : n \in {1, 2}}
    \cup {BigFromInt(NEG_1BYTE_MIN_Mag + d) : d \in {-1, 0, 1, 2}}
    \cup {BigFromInt(NEG_2BYTE_MIN_Mag + d) : d \in {-1, 0, 1, 2}}
    \cup {BigPow2(k) : k \in {16, 24, 32, 40, 48, 56}}
    \cup {BigAdd(BigPow2(k), BigOne) : k \in {16, 24, 32, 40, 48, 56}}
    \cup {BigSub(BigPow2(63), BigOne), BigPow2(63)}

\* values of the accepted domain -2^63..2^64-1
WtValues == {Val(m) : m \in WtPosBoundaries} \cup {NegVal(m) : m \in WtNegBoundaries}

\* values bit_encode_small refuses
WtInvalid == {NegVal(BigAdd(BigPow2(63), BigOne)), Val(BigPow2(64))}

\* values of the lists given to bit_encode_small
WtSeqValues ==
    {NegVal(BigFromInt(8257)), NegVal(BigOne), IntVal(10), IntVal(20),
     Val(BigAdd(BigPow2(35), BigFromInt(12345)))}

InputsWt ==
    {<<v>> : v \in WtValues \cup WtInvalid} \cup SeqsUpTo(WtSeqValues, MaxLen)

\* values of the lists given to the unsigned codecs (cf. "mixed_arrays")
PeerSeqValues ==
    {IntVal(0), IntVal(1), IntVal(128), IntVal(16384), Val(U64_MAX)}

InputsPeers ==
    {<<v>> : v \in Extended1 \cup Invalid1} \cup SeqsUpTo(PeerSeqValues, MaxLen)

\* small_int8.py compute_min_values: mins[L] is the least value of L bytes
RECURSIVE MinValue8(_)
MinValue8(L) ==
    IF L <= 1 THEN BigZero
    ELSE BigAdd(MinValue8(L - 1), BigPow2(7 * (L - 1)))

compute_min_values(max_len) == SubSeq([L \in 1..max_len |-> MinValue8(L)], 1, max_len)

\* small_int8.py "test_values": each length boundary with its neighbours
TestValues8 ==
    LET mins == compute_min_values(MaxBytes8)
    IN  UNION {Around(mins[L]) : L \in 1..MaxBytes8}

Inputs8 == InputsPeers \cup {<<v>> : v \in TestValues8}

\* small_int4_rle0.py "boundaries": the ends of the small forms and of the raw forms
Boundaries_rle0 ==
    {BigFromInt(n) : n \in {0, 7, 8, 71, 72, 583, 584, 4679, 4680, 528967, 528968}}
    \cup {BigFromInt(_MAX_SMALL_rle0), BigFromInt(_MAX_SMALL_rle0 + 1)}
    \cup {BigAdd(BigFromInt(_MAX_SMALL_rle0), BigPow2(k)) : k \in {32, 40, 48}}
    \cup {BigAdd(BigFromInt(_MAX_SMALL_rle0 + 1), BigPow2(k)) : k \in {32, 40, 48}}
    \cup {U64_MAX}

\* one value of one nibble, one of three nibbles and one of each raw form
\* (cf. small_int4_rle0.py "arr")
SeqValues_rle0 ==
    {IntVal(0), IntVal(72), IntVal(_MAX_SMALL_rle0 + 1), Val(U64_MAX)}
    \cup {Val(BigAdd(BigFromInt(_MAX_SMALL_rle0 + 1), BigPow2(k))) : k \in {32, 40}}

Inputs_rle0 ==
    {<<v>> : v \in {x \in UNION {Around(b) : b \in Boundaries_rle0} : BigLE(x.mag, U64_MAX)}
                   \cup Invalid1}
    \cup SeqsUpTo(SeqValues_rle0, MaxLen)

\* arbitrary decoder input of the byte and nibble codecs
PeerRawData == SeqsUpTo({0, 3, 128, 255}, MaxLen + 1)

\* varints of 10 to 12 bytes: 9 to 11 bytes with the continuation flag and
\* a last byte without it
LongVarints == {SubSeq([i \in 1..(k + 1) |-> IF i <= k THEN 128 ELSE 1], 1, k + 1) : k \in 9..11}

\* the codecs whose encode and decode are modelled as one step per call
Peers ==
    {"small_int8", "small_int8_proto", "small_int4", "small_int8_wt",
     "small_int1_elias_o", "small_int4_rle0"}

PeerEncInit == [out |-> <<>>]
PeerDecInit == DecReturned(<<>>)

-----------------------------------------------------------------------------
(* Runs of the byte and nibble codecs: one step per call *)

\* a run starts with an encode call on a, or with a decode call on bytes
\* that no encoder produced
InitPeers ==
    /\ codec \in Peers
    /\ enc = PeerEncInit
    /\ dec = PeerDecInit
    /\ \/ /\ a \in (IF codec = "small_int8_wt" THEN InputsWt
                   ELSE IF codec = "small_int8" THEN Inputs8
                   ELSE IF codec = "small_int4_rle0" THEN Inputs_rle0
                   ELSE InputsPeers)
          /\ pc = "encode"
          /\ data = <<>>
          /\ count = 0
          /\ mode = "none"
       \/ /\ a = <<>>
          /\ pc = "decode"
          /\ data \in PeerRawData \cup (IF codec = "small_int8_proto" THEN LongVarints ELSE {})
          /\ count \in 0..MaxCount
          /\ mode = "raw"

\* an encode call that hands back r
EncodeCall(r) ==
    /\ pc = "encode"
    /\ enc' = [out |-> r.out]
    /\ pc' = IF r.ok THEN "encoded" ELSE "raised"
    /\ UNCHANGED <<codec, a, data, count, dec, mode>>

\* the calls a run can make next: on the bytes Init chose, or on bytes
\* derived from the encoder's output with any count around len(a)
DecodeInputs ==
    IF pc = "decode"
    THEN {[mode |-> mode, data |-> data, count |-> count]}
    ELSE IF pc = "encoded"
    THEN {[mode |-> d.mode, data |-> d.data, count |-> c] :
            d \in Derived(enc.out), c \in (-1)..(Len(a) + MaxOver)}
    ELSE {}

\* a decode call on the input in that hands back r
DecodeCall(in, r) ==
    /\ data' = in.data
    /\ mode' = in.mode
    /\ count' = in.count
    /\ dec' = r
    /\ pc' = IF r.err = "" THEN "done" ELSE "raised"
    /\ UNCHANGED <<codec, a, enc>>

Encode8 ==
    /\ codec = "small_int8"
    /\ EncodeCall(bit_encode_small_unsigned_8(a))

Decode8 ==
    /\ codec = "small_int8"
    /\ \E in \in DecodeInputs :
         DecodeCall(in, bit_decode_small_unsigned_8(in.data, in.count))

EncodeProto ==
    /\ codec = "small_int8_proto"
    /\ EncodeCall(bit_encode_small_unsigned_proto(a))

DecodeProto ==
    /\ codec = "small_int8_proto"
    /\ \E in \in DecodeInputs :
         DecodeCall(in, bit_decode_small_unsigned_proto(in.data, in.count))

Encode4 ==
    /\ codec = "small_int4"
    /\ EncodeCall(bit_encode_small_unsigned_4(a))

Decode4 ==
    /\ codec = "small_int4"
    /\ \E in \in DecodeInputs :
         DecodeCall(in, bit_decode_small_unsigned_4(in.data, in.count))

EncodeRle0 ==
    /\ codec = "small_int4_rle0"
    /\ EncodeCall(bit_encode_small_unsigned_rle0(a))

DecodeRle0 ==
    /\ codec = "small_int4_rle0"
    /\ \E in \in DecodeInputs :
         DecodeCall(in, bit_decode_small_unsigned_rle0(in.data, in.count))

EncodeOmega ==
    /\ codec = "small_int1_elias_o"
    /\ EncodeCall(bit_encode_small_unsigned_eo(a))

DecodeOmega ==
    /\ codec = "small_int1_elias_o"
    /\ \E in \in DecodeInputs :
         DecodeCall(in, bit_decode_small_unsigned_eo(in.data, in.count))

EncodeWt ==
    /\ codec = "small_int8_wt"
    /\ EncodeCall(bit_encode_small(a))

DecodeWt ==
    /\ codec = "small_int8_wt"
    /\ \E in \in DecodeInputs :
         DecodeCall(in, bit_decode_small(in.data, in.count))

\* small_int1 on single values, beside the other codecs
Init1Single ==
    /\ codec = "small_int1"
    /\ a \in {<<v>> : v \in Extended1 \cup Invalid1}
    /\ pc = "encode"
    /\ enc = Enc1Init
    /\ dec = Dec1Init
    /\ data = <<>>
    /\ count = 0
    /\ mode = "none"

InitCodecs == Init1Single \/ InitPeers

NextCodecs ==
    \/ Encode1Step
    \/ Encode1Raise
    \/ Encode1Return
    \/ Decode1Call
    \/ Decode1Step
    \/ Decode1Raise
    \/ Decode1Return
    \/ Encode8
    \/ Decode8
    \/ EncodeProto
    \/ DecodeProto
    \/ Encode4
    \/ Decode4
    \/ EncodeRle0
    \/ DecodeRle0
    \/ EncodeOmega
    \/ DecodeOmega
    \/ EncodeWt
    \/ DecodeWt

SpecCodecs == InitCodecs /\ [][NextCodecs]_vars

-----------------------------------------------------------------------------
(* Runs of the Elias codecs: one step per call *)

EliasCodecs == {"small_int1_elias_d", "small_int1_elias_d2", "small_int1_elias_o"}

\* "for k in range(0, 65): base = (1 << k) - 1; for d in ...: v = base + d",
\* and a negative value
EliasValues ==
    UNION {Around(BigSub(BigPow2(k), BigOne)) : k \in 0..64} \cup {NegVal(BigOne)}

\* values of the lists: codewords of 1 to 75 bits
EliasSeqValues ==
    {IntVal(0), IntVal(1), IntVal(2), IntVal(14), IntVal(255), Val(U64_MAX)}

InputsElias == {<<v>> : v \in EliasValues} \cup SeqsUpTo(EliasSeqValues, MaxLen)

InitElias ==
    /\ codec \in EliasCodecs
    /\ enc = PeerEncInit
    /\ dec = PeerDecInit
    /\ \/ /\ a \in InputsElias
          /\ pc = "encode"
          /\ data = <<>>
          /\ count = 0
          /\ mode = "none"
       \/ /\ a = <<>>
          /\ pc = "decode"
          /\ data \in PeerRawData
          /\ count \in 0..MaxCount
          /\ mode = "raw"

EncodeDelta ==
    /\ codec = "small_int1_elias_d"
    /\ EncodeCall(bit_encode_small_unsigned_ed(a))

DecodeDelta ==
    /\ codec = "small_int1_elias_d"
    /\ \E in \in DecodeInputs :
         DecodeCall(in, bit_decode_small_unsigned_ed(in.data, in.count))

EncodeDelta2 ==
    /\ codec = "small_int1_elias_d2"
    /\ EncodeCall(bit_encode_small_unsigned_ed2(a))

DecodeDelta2 ==
    /\ codec = "small_int1_elias_d2"
    /\ \E in \in DecodeInputs :
         DecodeCall(in, bit_decode_small_unsigned_ed2(in.data, in.count))

NextElias ==
    \/ EncodeDelta
    \/ DecodeDelta
    \/ EncodeDelta2
    \/ DecodeDelta2
    \/ EncodeOmega
    \/ DecodeOmega

SpecElias == InitElias /\ [][NextElias]_vars

-----------------------------------------------------------------------------
(* Two values encoded on their own, to compare their encodings *)

PairCodecs == {"small_int1", "small_int8_wt"}

PairValues(cd) == IF cd = "small_int1" THEN Extended1 ELSE WtValues

InitPair ==
    /\ codec \in PairCodecs
    /\ a \in {<<u, v>> : u \in PairValues(codec), v \in PairValues(codec)}
    /\ pc = "encode"
    /\ enc = <<>>
    /\ data = <<>>
    /\ count = 0
    /\ dec = PeerDecInit
    /\ mode = "pair"

\* two encode calls, on [a[1]] and on [a[2]], that hand back r1 and r2
EncodeEach(r1, r2) ==
    /\ pc = "encode"
    /\ enc' = <<r1.out, r2.out>>
    /\ pc' = IF r1.ok /\ r2.ok THEN "encoded" ELSE "raised"
    /\ UNCHANGED <<codec, a, data, count, dec, mode>>

EncodeEach1 ==
    /\ codec = "small_int1"
    /\ EncodeEach(bit_encode_small_unsigned(<<a[1]>>), bit_encode_small_unsigned(<<a[2]>>))

EncodeEachWt ==
    /\ codec = "small_int8_wt"
    /\ EncodeEach(bit_encode_small(<<a[1]>>), bit_encode_small(<<a[2]>>))

NextPair ==
    \/ EncodeEach1
    \/ EncodeEachWt

SpecPair == InitPair /\ [][NextPair]_vars

-----------------------------------------------------------------------------
(* Properties of the other codecs and of pairs of encodings *)

\* x < y on Python bytes: byte-lexicographic order
C3_LexLess(x, y) ==
    \E k \in 0..Min(Len(x), Len(y)) :
        /\ SubSeq(x, 1, k) = SubSeq(y, 1, k)
        /\ \/ k = Len(x) /\ k < Len(y)
           \/ k < Len(x) /\ k < Len(y) /\ x[k + 1] < y[k + 1]

\* C3: for all u, v in -2^63..2^64-1, u < v if and only if
\* bit_encode_small([u]) is byte-lexicographically below bit_encode_small([v]),
\* across every marker and payload-length transition.
C3_OrderPreserving ==
    (codec = "small_int8_wt" /\ mode = "pair" /\ pc \in {"encoded", "raised"})
        => /\ pc = "encoded"
           /\ ValLT(a[1], a[2]) <=> C3_LexLess(enc[1], enc[2])

\* the two sides of the transition from the negative multi-byte marker to
\* the negative two-byte marker were encoded
C3_Witness ==
    /\ codec = "small_int8_wt" /\ mode = "pair" /\ pc = "encoded"
    /\ a = <<NegVal(BigFromInt(8257)), NegVal(BigFromInt(8256))>>
    /\ Len(enc[1]) = 3 /\ Len(enc[2]) = 2
    /\ C3_LexLess(enc[1], enc[2])

\* C4: dropping the last byte of the encoding of one value, when that
\* encoding is longer than one byte, and decoding one value raises an error;
\* for small_int1 (where every v >= 38 is such a value), small_int8 and
\* small_int8_wt.
C4_Truncation ==
    /\ (codec \in {"small_int1", "small_int8", "small_int8_wt"}
          /\ mode = "truncated" /\ Len(a) = 1 /\ count = 1 /\ Finished) => Raised
    /\ (codec = "small_int1" /\ pc = "encoded" /\ Len(a) = 1
          /\ BigLE(BigFromInt(38), a[1].mag)) => Len(enc.out) > 1

\* the two-byte encoding of 38 lost its payload byte and the read failed
C4_Witness ==
    /\ codec = "small_int1" /\ mode = "truncated" /\ Raised
    /\ a = <<IntVal(38)>>
    /\ count = 1
    /\ Len(data) = 1
    /\ dec.err = EndOfData

\* C8: when bit_decode_small_unsigned(data, count) of small_int4, small_int8
\* or small_int8_proto returns for count >= 0, the list returned has exactly
\* count elements, also for count = 0 on data that is not empty.
C8_ExactCount ==
    (codec \in {"small_int4", "small_int8", "small_int8_proto"}
        /\ Returned /\ count >= 0) => Len(dec.res) = count

\* C10: for u <= v in 0..2^64-1 the encoding of [u] is not longer than the
\* encoding of [v], across every form boundary and raw length boundary.
C10_MonotonicLength ==
    (codec = "small_int1" /\ mode = "pair" /\ pc \in {"encoded", "raised"})
        => /\ pc = "encoded"
           /\ BigLE(a[1].mag, a[2].mag) => Len(enc[1]) <= Len(enc[2])

\* the last value of three bytes and the first value of the raw form
C10_Witness ==
    /\ codec = "small_int1" /\ mode = "pair" /\ pc = "encoded"
    /\ a = <<IntVal(594213), IntVal(594214)>>
    /\ Len(enc[1]) = 3 /\ Len(enc[2]) = 4

-----------------------------------------------------------------------------
(* The form table and the raw form of small_int1 *)

C11_DataBits == <<1, 2, 5, 8, 12, 16, 19>>
C11_Ranges ==
    << <<0, 1>>, <<2, 5>>, <<6, 37>>, <<38, 293>>, <<294, 4389>>,
       <<4390, 69925>>, <<69926, 594213>> >>
\* the control bits written before the payload of each fixed form
C11_CtrlBits == <<1, 2, 3, 8, 4, 8, 5>>
C11_Ctrl == <<0, 1, 3, 31, 7, 63, 15>>

\* C11: with data widths (1, 2, 5, 8, 12, 16, 19) the table has shift[0] = 0,
\* shift[k+1] = top[k] + 1 and top[k] = shift[k] + 2^dataBits[k] - 1, so the
\* seven ranges are [0,1], [2,5], [6,37], [38,293], [294,4389], [4390,69925],
\* [69926,594213], contiguous from 0; and the encoder writes each v up to
\* 594213 in the smallest form k with v <= top[k], with the payload
\* v - shift[k] < 2^dataBits[k] behind that form's control bits.
C11_FormTable ==
    /\ _CAP_BITS = C11_DataBits
    /\ _SHIFT[1] = 0
    /\ \A k \in 1..6 : _SHIFT[k + 1] = _TOP[k] + 1
    /\ \A k \in 1..7 : _TOP[k] = _SHIFT[k] + 2 ^ C11_DataBits[k] - 1
    /\ \A k \in 1..7 : <<_SHIFT[k], _TOP[k]>> = C11_Ranges[k]
    /\ (codec = "small_int1" /\ pc = "encoded" /\ Len(a) = 1
            /\ BigLE(a[1].mag, BigFromInt(594213)))
        => LET v == BigToInt(a[1].mag)
               k == CHOOSE f \in 1..7 :
                       v <= _TOP[f] /\ \A g \in 1..(f - 1) : v > _TOP[g]
               p == v - _SHIFT[k]
           IN  /\ EncoderForm(a[1].mag) = k
               /\ 0 <= p /\ p < 2 ^ C11_DataBits[k]
               /\ 8 * Len(enc.out) >= C11_CtrlBits[k] + C11_DataBits[k]
               /\ BigToInt(BigFromBytesLE(enc.out))
                      = C11_Ctrl[k] + p * 2 ^ C11_CtrlBits[k]

\* 294, the first value of the fifth form, was written with payload 0
C11_Witness ==
    /\ codec = "small_int1" /\ pc = "encoded"
    /\ a = <<IntVal(294)>>
    /\ EncoderForm(a[1].mag) = 5
    /\ enc.out = <<7, 0>>

\* the least number of bytes that hold x
C12_ByteLength(x) ==
    CHOOSE n \in 0..NLimbs :
        /\ BigLT(x, BigPow2(8 * n))
        /\ \A m \in 0..NLimbs : BigLT(x, BigPow2(8 * m)) => n <= m

\* C12: every v in 594214..2^64-1 is written as the control byte
\* 0x1F | ((nbytes - 1) << 5) followed by exactly nbytes bytes holding
\* v - 594214 little-endian, where nbytes = max(3, ceil(bitlength(v - 594214) / 8))
\* is at most 8, so the N of the control byte is in 2..7 and never the 0 or 1
\* of the fixed forms.
C12_RawForm ==
    (codec = "small_int1" /\ pc = "encoded" /\ Len(a) = 1
        /\ BigLE(BigFromInt(594214), a[1].mag))
        => LET adj == BigSub(a[1].mag, BigFromInt(594214))
               nbytes == Max(3, C12_ByteLength(adj))
           IN  /\ nbytes <= 8
               /\ Len(enc.out) = 1 + nbytes
               /\ enc.out[1] = 31 + 32 * (nbytes - 1)
               /\ enc.out[1] \div 32 \in 2..7
               /\ SubSeq(enc.out, 2, 1 + nbytes) = SubSeq(adj, 1, nbytes)
               /\ \A i \in (nbytes + 1)..NLimbs : adj[i] = 0

\* 594214 + 2^24 needs a fourth payload byte: N = 3 and payload 00 00 00 01
C12_Witness ==
    /\ codec = "small_int1" /\ pc = "encoded"
    /\ a = <<Val(BigAdd(BigFromInt(594214), BigPow2(24)))>>
    /\ enc.out = <<127, 0, 0, 0, 1>>

-----------------------------------------------------------------------------
(* small_int8_wt: round trip and length *)

\* C13: for every list a of integers in -2^63..2^64-1, negative or not and
\* 8256 included, bit_decode_small(bit_encode_small(a), len(a)) is a.
C13_WtRoundTrip ==
    (codec = "small_int8_wt" /\ mode = "exact" /\ count = Len(a) /\ Finished)
        => (Returned /\ dec.res = a)

\* a multi-byte negative value followed by a multi-byte positive one came back
C13_Witness ==
    /\ codec = "small_int8_wt" /\ mode = "exact" /\ Returned
    /\ a = <<NegVal(BigFromInt(8257)), Val(BigAdd(BigPow2(35), BigFromInt(12345)))>>
    /\ count = 2
    /\ dec.res = a

\* the claimed length of the encoding of [v], v >= -8256
C14_Length(v) ==
    IF v.neg
    THEN IF BigLE(v.mag, BigFromInt(64)) THEN 1 ELSE 2
    ELSE IF BigLE(v.mag, BigFromInt(63)) THEN 1
    ELSE IF BigLE(v.mag, BigFromInt(8256)) THEN 2
    ELSE 1 + Max(1, C12_ByteLength(BigSub(v.mag, BigFromInt(8256))))

\* C14: len(bit_encode_small([v])) is 1 for -64 <= v <= 63, 2 for
\* -8256 <= v <= -65 and for 64 <= v <= 8256, and
\* 1 + max(1, ceil(bitlength(v - 8256) / 8)) for v > 8256, at most 9 bytes
\* up to 2^64 - 1.
C14_WtLength ==
    (codec = "small_int8_wt" /\ pc = "encoded" /\ Len(a) = 1
        /\ (a[1].neg => BigLE(a[1].mag, BigFromInt(8256))))
        => /\ Len(enc.out) = C14_Length(a[1])
           /\ Len(enc.out) <= 9

\* 8256 + 2^16 is the first value with a three-byte remainder
C14_Witness ==
    /\ codec = "small_int8_wt" /\ pc = "encoded"
    /\ a = <<Val(BigAdd(BigFromInt(8256), BigPow2(16)))>>
    /\ enc.out = <<227, 1, 0, 0>>

-----------------------------------------------------------------------------
(* zigzag.py: signed integers as unsigned ones *)

\* encode_signed_as_unsigned that does not subtract one from -n
encode_signed_as_unsigned_NoDecrement(n) ==
    IF n.neg
    THEN Val(BigOr(BigShl(n.mag, 1), BigOne))
    ELSE Val(BigShl(n.mag, 1))

encode_signed_as_unsigned(n) ==
    IF n.neg
    THEN Val(BigOr(BigShl(BigSub(n.mag, BigOne), 1), BigOne))
    ELSE Val(BigShl(n.mag, 1))

\* n & 1 and n >> 1 are Python's: on n = -m they are m & 1 and -ceil(m / 2)
decode_unsigned_as_signed(n) ==
    IF n.mag[1] % 2 = 1
    THEN IF n.neg
         THEN Val(BigShr(BigSub(n.mag, BigOne), 1))
         ELSE NegVal(BigAdd(BigShr(n.mag, 1), BigOne))
    ELSE IF n.neg
         THEN NegVal(BigShr(n.mag, 1))
         ELSE Val(BigShr(n.mag, 1))

\* the signed values of the modules' tests, range(-150, 151), and values
\* around the ends of the 32-bit and 64-bit ranges
ZigzagLarge ==
    UNION {Around(BigPow2(k)) : k \in {31, 32, 63, 64}}

ZigzagSigned ==
    {IntVal(n) : n \in 0..MaxSigned} \cup {NegVal(BigFromInt(n)) : n \in 1..MaxSigned}
    \cup ZigzagLarge \cup {NegVal(v.mag) : v \in ZigzagLarge}

ZigzagUnsigned ==
    {IntVal(n) : n \in 0..(2 * MaxSigned)} \cup ZigzagLarge
    \cup UNION {Around(BigPow2(65))}

\* a run maps a signed value to unsigned and back ("signed"), or an
\* unsigned value to signed and back ("unsigned")
InitZigzag ==
    /\ codec = "zigzag"
    /\ data = <<>> /\ count = 0
    /\ enc = Val(BigZero) /\ dec = Val(BigZero)
    /\ \/ mode = "signed" /\ pc = "encode" /\ a \in {<<n>> : n \in ZigzagSigned}
       \/ mode = "unsigned" /\ pc = "decode" /\ a \in {<<u>> : u \in ZigzagUnsigned}

\* encode_signed_as_unsigned(i)
ZigzagEncode ==
    /\ codec = "zigzag" /\ pc = "encode"
    /\ enc' = encode_signed_as_unsigned(a[1])
    /\ pc' = "encoded"
    /\ UNCHANGED <<codec, a, data, count, dec, mode>>

\* decode_unsigned_as_signed of what ZigzagEncode returned
ZigzagDecodeBack ==
    /\ codec = "zigzag" /\ pc = "encoded"
    /\ dec' = decode_unsigned_as_signed(enc)
    /\ pc' = "done"
    /\ UNCHANGED <<codec, a, enc, data, count, mode>>

\* decode_unsigned_as_signed(u)
ZigzagDecode ==
    /\ codec = "zigzag" /\ pc = "decode"
    /\ dec' = decode_unsigned_as_signed(a[1])
    /\ pc' = "decoded"
    /\ UNCHANGED <<codec, a, enc, data, count, mode>>

\* encode_signed_as_unsigned of what ZigzagDecode returned
ZigzagEncodeBack ==
    /\ codec = "zigzag" /\ pc = "decoded"
    /\ enc' = encode_signed_as_unsigned(dec)
    /\ pc' = "done"
    /\ UNCHANGED <<codec, a, data, count, dec, mode>>

NextZigzag == ZigzagEncode \/ ZigzagDecodeBack \/ ZigzagDecode \/ ZigzagEncodeBack

SpecZigzag == InitZigzag /\ [][NextZigzag]_vars

\* C15: encode_signed_as_unsigned maps n >= 0 to 2n and n < 0 to
\* 2(-n - 1) + 1, a non-negative integer in both cases;
\* decode_unsigned_as_signed(encode_signed_as_unsigned(n)) is n for every
\* integer n, and encode_signed_as_unsigned(decode_unsigned_as_signed(u)) is
\* u for every u >= 0, so the two are inverse bijections between the
\* integers and the non-negative integers.
C15_ZigzagBijection ==
    /\ (codec = "zigzag" /\ mode = "signed" /\ pc \in {"encoded", "done"})
        => /\ ~enc.neg
           /\ enc.mag = IF a[1].neg
                        THEN LET m == BigSub(a[1].mag, BigOne)
                             IN  BigAdd(BigAdd(m, m), BigOne)
                        ELSE BigAdd(a[1].mag, a[1].mag)
    /\ (codec = "zigzag" /\ mode = "signed" /\ pc = "done") => dec = a[1]
    /\ (codec = "zigzag" /\ mode = "unsigned" /\ pc = "done") => enc = a[1]

\* -2^63 went to 2^64 - 1 and came back
C15_Witness ==
    /\ codec = "zigzag" /\ mode = "signed" /\ pc = "done"
    /\ a = <<NegVal(BigPow2(63))>>
    /\ enc = Val(U64_MAX)
    /\ dec = a[1]

-----------------------------------------------------------------------------
(* Asking a decoder for more values than were encoded *)

\* C16: for small_int8, small_int8_proto and small_int8_wt, every list a of
\* valid values and every k > len(a), decode(encode(a), k) raises ValueError
\* and returns no list.
C16_OverRequestBytes ==
    (codec \in {"small_int8", "small_int8_proto", "small_int8_wt"}
        /\ mode = "exact" /\ count > Len(a) /\ Finished) => Raised

\* three values were asked of the encoding of two
C16_Witness ==
    /\ codec = "small_int8" /\ mode = "exact" /\ Raised
    /\ a = <<IntVal(128), Val(U64_MAX)>>
    /\ count = 3
    /\ dec.err = TooMany

\* C17: for small_int4, every list a of non-negative integers and every
\* k > len(a), decode(encode(a), k) raises ValueError ("Too many integers
\* requested" or "Incomplete data"), also when encode(a) fills an odd number
\* of nibbles and the high nibble of the last byte is unused.
C17_OverRequestNibbles ==
    (codec = "small_int4" /\ mode = "exact" /\ count > Len(a) /\ Finished)
        => (Raised /\ dec.err \in {TooMany, Incomplete})

\* C18: for small_int1_elias_o, every list a of non-negative values and
\* every k > len(a), decode(encode(a), k) raises ValueError and does not
\* return k values, also when the final byte carries unused zero bits behind
\* the last terminator.
C18_OverRequestOmega ==
    (codec = "small_int1_elias_o" /\ mode = "exact" /\ count > Len(a) /\ Finished)
        => Raised

-----------------------------------------------------------------------------
(* small_int8: lengths *)

\* m(L) = sum of 2^(7i) for i = 1..L-1
RECURSIVE C19_M(_)
C19_M(L) == IF L <= 1 THEN BigZero ELSE BigAdd(C19_M(L - 1), BigPow2(7 * (L - 1)))

\* C19: the small_int8 encoding of a single v has exactly L bytes if and
\* only if m(L) <= v < m(L+1), where m(1) = 0 and m(L) is the sum of 2^(7i)
\* for i = 1..L-1; and decode(encode([v]), 1) is [v] at every length
\* boundary and its neighbours.
C19_Length8 ==
    /\ (codec = "small_int8" /\ Len(a) = 1 /\ ~a[1].neg /\ pc # "encode")
        => \A L \in 1..(MaxBytes8 + 1) :
              Len(enc.out) = L
                  <=> (BigLE(C19_M(L), a[1].mag) /\ BigLT(a[1].mag, C19_M(L + 1)))
    /\ (codec = "small_int8" /\ Len(a) = 1 /\ mode = "exact" /\ count = 1 /\ Finished)
        => (Returned /\ dec.res = a)

\* 16511 = m(3) - 1 is the last value of two bytes, and it was decoded back
C19_Witness ==
    /\ codec = "small_int8" /\ mode = "exact" /\ Returned
    /\ a = <<IntVal(16511)>>
    /\ count = 1
    /\ enc.out = <<255, 127>>
    /\ dec.res = a

-----------------------------------------------------------------------------
(* The nibble codecs: round trip *)

\* C20: for small_int4 and small_int4_rle0 and every list a of values in
\* 0..2^64-1, decode(encode(a), len(a)) is a, whether a codeword starts at
\* the low or at the high nibble of a byte; for small_int4_rle0 this covers
\* three-nibble forms and the raw32, raw40, raw48 and raw64 forms that start
\* in the middle of a byte.
C20_NibbleRoundTrip ==
    (codec \in {"small_int4", "small_int4_rle0"} /\ mode = "exact"
        /\ count = Len(a) /\ Finished /\ \A i \in 1..Len(a) : ~OutOfRange(a[i]))
        => (Returned /\ dec.res = a)

\* a raw40 form behind a three-nibble form starts at the high nibble of
\* the second byte, and both values came back
C20_Witness ==
    /\ codec = "small_int4_rle0" /\ mode = "exact" /\ Returned
    /\ a = <<IntVal(72), Val(BigAdd(BigFromInt(_MAX_SMALL_rle0 + 1), BigPow2(32)))>>
    /\ count = 2
    /\ Len(enc.out) = 8
    /\ dec.res = a

-----------------------------------------------------------------------------
(* small_int4_rle0: the raw control bytes *)

\* the value bytes the module header gives for each raw control byte
C21_ValueBytes(ctl) ==
    IF ctl = 192 THEN 4 ELSE IF ctl = 128 THEN 5 ELSE IF ctl = 64 THEN 6 ELSE 8

\* the control byte the module header gives for the raw size class of adj
C21_Control(adj) ==
    IF BigLT(adj, BigPow2(32)) THEN 192
    ELSE IF BigLT(adj, BigPow2(40)) THEN 128
    ELSE IF BigLT(adj, BigPow2(48)) THEN 64
    ELSE 0

\* C21: the raw control bytes of small_int4_rle0 are those of the module
\* header: 0xC0 introduces 4 raw value bytes, 0x80 introduces 5, 0x40
\* introduces 6 and 0x00 introduces 8, both in what the encoder emits for
\* each raw size class and in how many payload nibbles the decoder reads
\* behind each control byte.
C21_RawControl ==
    /\ (codec = "small_int4_rle0" /\ pc = "encoded" /\ Len(a) = 1
            /\ BigLT(BigFromInt(_MAX_SMALL_rle0), a[1].mag))
        => LET adj == BigSub(a[1].mag, BigFromInt(_MAX_SMALL_rle0 + 1))
           IN  /\ enc.out[1] = C21_Control(adj)
               /\ Len(enc.out) = 1 + C21_ValueBytes(enc.out[1])
    /\ (codec = "small_int4_rle0" /\ Returned /\ count = 1 /\ Len(data) >= 1
            /\ data[1] \in {192, 128, 64, 0})
        => LET n == C21_ValueBytes(data[1])
           IN  /\ Len(data) >= 1 + n
               /\ dec.res[1].mag = BigAdd(BigFromInt(_MAX_SMALL_rle0 + 1),
                                          BigFromBytesLE(SubSeq(data, 2, 1 + n)))

-----------------------------------------------------------------------------
(* The Elias codecs: round trip and length *)

\* C22: for small_int1_elias_d, small_int1_elias_d2 and small_int1_elias_o
\* and every list a of values in 0..2^64-1, decode(encode(a), len(a)) is a,
\* with the codewords packed back to back at any bit offset.
C22_EliasRoundTrip ==
    (codec \in EliasCodecs /\ mode = "exact" /\ count = Len(a) /\ Finished
        /\ \A i \in 1..Len(a) : ~a[i].neg /\ BigLE(a[i].mag, U64_MAX))
        => (Returned /\ dec.res = a)

\* the codeword of 2^64-1 starts at bit 2, behind the two bits of the
\* value 1, and ends inside the tenth byte; both values came back
C22_Witness ==
    /\ codec = "small_int1_elias_d2" /\ mode = "exact" /\ Returned
    /\ a = <<IntVal(1), Val(U64_MAX)>>
    /\ count = 2
    /\ Len(enc.out) = 10
    /\ dec.res = a

\* the bits of the delta codeword of n: 2L + N
C23_DeltaBits(n) ==
    LET N == BigBitLength(n)
        L == IntBitLength(N) - 1
    IN  2 * L + N

\* the bits of the omega codeword of n: the end bit and the segments
RECURSIVE C23_OmegaBits(_)
C23_OmegaBits(n) ==
    IF BigLE(n, BigOne) THEN 1
    ELSE BigBitLength(n) + C23_OmegaBits(BigFromInt(BigBitLength(n) - 1))

C23_LogicalBits(v) ==
    IF codec = "small_int1_elias_d" THEN C23_DeltaBits(BigAdd(v, BigOne))
    ELSE IF codec = "small_int1_elias_d2"
    THEN IF BigLE(v, BigOne) THEN 2
         ELSE C23_DeltaBits(BigAdd(BigSub(v, BigFromInt(INITIAL_MAX)), BigOne))
    ELSE C23_OmegaBits(BigAdd(v, BigOne))

-----------------------------------------------------------------------------
(* small_int8_proto: varints of more than 10 bytes *)

\* C24: the decoder of small_int8_proto raises ValueError on any single
\* varint of more than 10 bytes, that is on 10 or more bytes with the
\* continuation flag that are followed by further bytes.
C24_LongVarint ==
    (codec = "small_int8_proto" /\ Finished /\ mode = "raw" /\ count >= 1
        /\ Len(data) > 10 /\ \A i \in 1..10 : data[i] >= 128)
        => Raised

-----------------------------------------------------------------------------
(* small_int1: the bit stream of the writer *)

\* the number of bits written to the buffer of w
BitCount(w) == 8 * (Len(w.out) - 1) + w.bit_pos

\* the bits written to the buffer of w, in stream order
BitsOf(w) ==
    LET n == BitCount(w)
    IN  SubSeq([p \in 1..n |-> (w.out[((p - 1) \div 8) + 1] \div (2 ^ ((p - 1) % 8))) % 2], 1, n)

\* the codeword of v: the bits of encode([v])
Codeword(v) == BitsOf(EncodeValue([out |-> <<0>>, bit_pos |-> 0], v.mag))

\* the codewords of s[1..i] one behind the other
RECURSIVE Codewords(_, _)
Codewords(s, i) == IF i = 0 THEN <<>> ELSE Codewords(s, i - 1) \o Codeword(s[i])

\* C25: the bit stream of small_int1's encoder is, after each value and at
\* the return, the concatenation in input order of the codewords the values
\* have when encoded alone, with nothing between them; so the bits written
\* for a are the same in the encoding of a followed by further values.
C25_Concatenation ==
    (codec = "small_int1" /\ pc \in {"encode", "encoded"})
        => BitsOf(enc) = Codewords(a, enc.i)

\* two values were written, the second one from the middle of a byte on
C25_Witness ==
    /\ codec = "small_int1" /\ pc = "encoded" /\ enc.i = 2
    /\ a = <<IntVal(2), Val(U64_MAX)>>
    /\ Len(Codeword(a[1])) = 4
    /\ BitsOf(enc) = Codeword(a[1]) \o Codeword(a[2])

-----------------------------------------------------------------------------
(* small_int1: the preview of the reader *)

\* bit p of the stream, zero behind the end of the data
C26_StreamBit(d, p) == IF p < 8 * Len(d) THEN DataBit(d, p) ELSE 0

\* the integer whose bits i..7 are the stream bits p + i .. p + 7
RECURSIVE C26_Window(_, _, _)
C26_Window(d, p, i) ==
    IF i > 7 THEN 0
    ELSE C26_StreamBit(d, p + i) * (2 ^ i) + C26_Window(d, p, i + 1)

\* C26: at a cursor (byte_index, bit_pos) with byte_index < len(data),
\* peek_upto8 returns the integer whose bit i, 0 <= i < 8, is the stream
\* bit 8 * byte_index + bit_pos + i (zero behind the end of the data), also
\* when the rest of the current byte is zero and the next byte is not.
C26_PeekWindow ==
    (codec = "small_int1" /\ pc = "decode" /\ Len(dec.res) < count
        /\ dec.byte_index < Len(data))
        => peek_upto8(data, dec) = C26_Window(data, 8 * dec.byte_index + dec.bit_pos, 0)

-----------------------------------------------------------------------------
(* small_int1: the bits behind the last codeword *)

\* C27: if the data differ from encode(a) only in the bits of the last
\* byte that the writer did not fill, small_int1's decode(data, len(a))
\* returns a, as it does on encode(a): the result does not depend on the
\* padding bits.
C27_PaddingIndependence ==
    (codec = "small_int1" /\ mode = "padded" /\ count = Len(a) /\ Finished)
        => (Returned /\ dec.res = a)

\* two values of two bits each were decoded from a byte whose four high
\* bits were set behind the encoder
C27_Witness ==
    /\ codec = "small_int1" /\ mode = "padded" /\ Returned
    /\ a = <<IntVal(0), IntVal(0)>>
    /\ enc.out = <<0>> /\ data = <<240>>
    /\ count = 2
    /\ dec.res = a

-----------------------------------------------------------------------------
(* small_int1: the writer under any sequence of _emit_bits calls *)

\* the values given to _emit_bits: all 64 bits set, and 0xA5 in each of
\* the eight bytes; both have bits above most of the widths
EmitValues == {U64_MAX, SubSeq([i \in 1..NLimbs |-> IF i <= 8 THEN 165 ELSE 0], 1, NLimbs)}
EmitWidths == {0, 1, 2, 7, 8, 9, 24, 64}

\* out = bytearray([0]); bit_pos = 0, and no call made
InitWriter ==
    /\ codec = "BitWriter"
    /\ pc = "encode"
    /\ a = <<>>
    /\ enc = Enc1Init
    /\ dec = Dec1Init
    /\ data = <<>> /\ count = 0 /\ mode = "none"

\* a call _emit_bits(value, n_bits); a records the calls
WriterEmit ==
    /\ codec = "BitWriter" /\ pc = "encode"
    /\ enc.i < MaxLen + 1
    /\ \E value \in EmitValues, n_bits \in EmitWidths :
         /\ LET w == _emit_bits([out |-> enc.out, bit_pos |-> enc.bit_pos], value, n_bits)
            IN  enc' = [out |-> w.out, bit_pos |-> w.bit_pos, i |-> enc.i + 1]
         /\ a' = Append(a, [value |-> value, n_bits |-> n_bits])
    /\ UNCHANGED <<codec, pc, data, count, dec, mode>>

\* return bytes(out)
WriterReturn ==
    /\ codec = "BitWriter" /\ pc = "encode"
    /\ data' = enc.out
    /\ pc' = "encoded"
    /\ UNCHANGED <<codec, a, enc, count, dec, mode>>

NextWriter == WriterEmit \/ WriterReturn

SpecWriter == InitWriter /\ [][NextWriter]_vars

\* the low n_bits bits of value, the lowest first
LowBits(value, n_bits) == SubSeq([p \in 1..n_bits |-> BigBit(value, p - 1)], 1, n_bits)

\* the bits the calls s[1..i] ask for, and their number
RECURSIVE EmittedBits(_, _)
EmittedBits(s, i) ==
    IF i = 0 THEN <<>> ELSE EmittedBits(s, i - 1) \o LowBits(s[i].value, s[i].n_bits)

\* C28: after any sequence of _emit_bits calls with 0 <= n_bits <= 64,
\* len(out) >= 1 and 0 <= bit_pos <= 8, the number of bits emitted is
\* 8 * (len(out) - 1) + bit_pos, the bits in the buffer are the low n_bits
\* bits of each value, lowest first, and the bits of the last byte from
\* bit_pos on are zero; so what is returned has max(1, ceil(bits / 8))
\* bytes, and a single zero byte when nothing was emitted.
C28_WriterInvariant ==
    codec = "BitWriter" =>
        LET bits == EmittedBits(a, Len(a))
        IN  /\ Len(enc.out) >= 1
            /\ enc.bit_pos \in 0..8
            /\ Len(bits) = 8 * (Len(enc.out) - 1) + enc.bit_pos
            /\ BitsOf(enc) = bits
            /\ Last(enc.out) < 2 ^ enc.bit_pos
            /\ pc = "encoded" =>
                 /\ Len(data) = Max(1, (Len(bits) + 7) \div 8)
                 /\ (a = <<>> => data = <<0>>)

\* calls for 1 and 7 bits filled the first byte exactly, a call for 9 bits
\* wrote the second byte and one bit of a third; three bytes were returned
C28_Witness ==
    /\ codec = "BitWriter" /\ pc = "encoded"
    /\ Len(a) = 3 /\ a[1].n_bits = 1 /\ a[2].n_bits = 7 /\ a[3].n_bits = 9
    /\ \A k \in 1..3 : a[k].value = U64_MAX
    /\ enc.bit_pos = 1
    /\ data = <<255, 255, 1>>

-----------------------------------------------------------------------------
(* small_int1: the decoder on arbitrary input *)

\* before a call of bit_decode_small_unsigned on arbitrary bytes
InitDecode ==
    /\ codec = "small_int1"
    /\ a = <<>>
    /\ enc = Enc1Init
    /\ dec = Dec1Init
    /\ pc = "call"
    /\ data = <<>>
    /\ count = 0
    /\ mode = "raw"

\* the call bit_decode_small_unsigned(d, c), up to the loop, with counts up
\* to just above four values per byte for short data
DecodeRawCall ==
    /\ codec = "small_int1" /\ pc = "call"
    /\ \E d \in RawData :
         \E c \in (0..MaxCount) \cup
                  (IF Len(d) <= MaxLen THEN {4 * Len(d), 4 * Len(d) + 1} ELSE {}) :
           /\ data' = d
           /\ count' = c
    /\ pc' = "decode"
    /\ UNCHANGED <<codec, a, enc, dec, mode>>

NextDecode ==
    \/ DecodeRawCall
    \/ Decode1Step
    \/ Decode1Raise
    \/ Decode1Return

SpecDecode == InitDecode /\ [][NextDecode]_vars

\* the cursor as a bit position
Cursor(r) == 8 * r.byte_index + r.bit_pos

\* the total width of the form that a preview selects
C29_Width(preview) ==
    LET f == DecoderForm(preview)
        N == BitAnd(Shr(preview, 5), 7)
    IN  IF f = 1 THEN 2
        ELSE IF f = 2 THEN 4
        ELSE IF f = 3 THEN 8
        ELSE IF f \in {4, 5} THEN 16
        ELSE IF f \in {6, 7} THEN 24
        ELSE 8 + 8 * (N + 1)

\* an iteration that does not raise appends one value and moves the cursor
\* forward by the width of the form, inside the data
C29_Advance ==
    Decode1Step =>
        /\ Len(dec'.res) = Len(dec.res) + 1
        /\ Cursor(dec') = Cursor(dec) + C29_Width(peek_upto8(data, dec))
        /\ Cursor(dec') > Cursor(dec)
        /\ Cursor(dec') <= 8 * Len(data)

\* between the iterations: at most count values were appended, each of at
\* least two bits inside the data; an iteration that is due raises or
\* appends; a call that returned count values had the bits for them
C29_Bounded ==
    /\ Len(dec.res) <= count
    /\ 2 * Len(dec.res) <= Cursor(dec)
    /\ Cursor(dec) <= 8 * Len(data)
    /\ (pc = "decode" /\ Len(dec.res) < count) => DecodeValue(data, dec).ok \in BOOLEAN
    /\ Returned => count <= 4 * Len(data)

\* C29: small_int1's decode ends on any data and any count >= 0: each
\* iteration of the loop raises ValueError or appends one value and moves
\* the cursor 8 * byte_index + bit_pos forward by the width of the form (2,
\* 4, 8, 16, 24 or 8 + 8 * (N + 1) bits) without reading behind the data,
\* so the call ends within count iterations, and it raises when count is
\* above 4 * len(data).
C29_DecodeTerminates == [][C29_Advance]_vars /\ []C29_Bounded

\* four values were decoded from one byte and the fifth iteration raised
C29_Witness ==
    /\ codec = "small_int1" /\ mode = "raw" /\ Raised
    /\ Len(data) = 1 /\ count = 5
    /\ Len(dec.res) = 4
    /\ Cursor(dec) = 8

====
